---- MODULE Spec2Model ----
\* Verification model of the tender-tracking tool: the document ingestion
\* pipeline (modules/manual_tender_entry.py, class ManualTenderEntry) and the
\* tender matching engine (modules/tender_monitor.py, class TenderMonitor).
\*
\* Representation of Python values
\*   str        a sequence of tokens; a token is a one-character string, or
\*              an opaque word standing for a fixed phrase (TLA+ strings are
\*              ASCII, so the Cyrillic literals of the source are written in
\*              transliteration: "INN zakazchika", "Srok ispolneniya",
\*              "artikul", "aktualna", "prosrochena", "novyj", ...)
\*   None       the one-token sequence None
\*   a dict key that is absent: the one-token sequence Missing
\*   datetime   a record [date |-> day key, tick |-> tick of the day]
EXTENDS Integers, Sequences, FiniteSets, TLC

\* ---------------------------------------------------------------------
\* Bounds of the model
\* ---------------------------------------------------------------------
\* clock ticks per minute (strftime with %H:%M drops the ticks)
TicksPerMinute == 2
\* the clock runs from 0 to MaxTime ticks after 2000-01-01 00:00
MaxTime == 2
\* nested _process_archive frames before the interpreter raises
\* RecursionError (sys.getrecursionlimit(), scaled down)
RecursionLimit == 3
\* calls of process_uploaded_files and find_new_tenders in one run
MaxCalls == 2
\* calls of process_uploaded_files in a run of the ingestion alone
MaxIngests == 2

\* ---------------------------------------------------------------------
\* Python values
\* ---------------------------------------------------------------------
None == <<"<None>">>
Missing == <<"<missing>">>
EmptyStr == <<>>
NL == "\n"
BS == "\\"

Orgs == {"1234567890", "7700000000"}

\* bool(value) of a str or None
Truthy(v) == v # None /\ v # Missing /\ v # EmptyStr

\* dict.get(key) and dict.get(key, default) on a record whose absent keys
\* hold Missing
Get(d, k) == IF d[k] = Missing THEN None ELSE d[k]
GetDefault(d, k, dflt) == IF d[k] = Missing THEN dflt ELSE d[k]

Min(a, b) == IF a < b THEN a ELSE b
Max(a, b) == IF a > b THEN a ELSE b

Range(s) == {s[i] : i \in 1..Len(s)}

RECURSIVE Flatten(_)
Flatten(ss) == IF ss = <<>> THEN <<>> ELSE Head(ss) \o Flatten(Tail(ss))

\* sep.join(parts) for a sequence of strs
RECURSIVE Join(_, _)
Join(parts, sep) ==
    IF parts = <<>> THEN EmptyStr
    ELSE IF Len(parts) = 1 THEN parts[1]
    ELSE parts[1] \o sep \o Join(Tail(parts), sep)

\* filter(None, parts): the non-empty strs, order kept
FilterNonEmpty(parts) == SelectSeq(parts, LAMBDA p : p # EmptyStr)

\* "\n".join(filter(None, parts))
JoinLines(parts) == Join(FilterNonEmpty(parts), <<NL>>)

Digits == <<"0", "1", "2", "3", "4", "5", "6", "7", "8", "9">>
DigitSet == Range(Digits)
IsDigit(c) == c \in DigitSet
DigitVal(c) == CHOOSE n \in 0..9 : Digits[n + 1] = c

\* str.lower() of one token; the opaque words are in lower case already
UpperAlpha == <<"A", "B", "C", "D", "E", "F", "G", "H", "I", "J", "K", "L", "M",
                "N", "O", "P", "Q", "R", "S", "T", "U", "V", "W", "X", "Y", "Z">>
LowerAlpha == <<"a", "b", "c", "d", "e", "f", "g", "h", "i", "j", "k", "l", "m",
                "n", "o", "p", "q", "r", "s", "t", "u", "v", "w", "x", "y", "z">>
UpperSet == Range(UpperAlpha)
LowerSet == Range(LowerAlpha)
LowerOf == [c \in UpperSet |-> LowerAlpha[CHOOSE i \in 1..26 : UpperAlpha[i] = c]]
LowerTok(c) == IF c \in UpperSet THEN LowerOf[c] ELSE c
Lower(s) == [i \in 1..Len(s) |-> LowerTok(s[i])]

\* needle in haystack (substring test of two strs)
Contains(needle, hay) ==
    \E i \in 0..(Len(hay) - Len(needle)) :
        \A j \in 1..Len(needle) : hay[i + j] = needle[j]

\* ---------------------------------------------------------------------
\* Regular expressions (module re), as far as the source uses them
\* ---------------------------------------------------------------------
\* A pattern is a sequence of items [any, set, min, max, greedy]: a
\* character class (any = "." , every token but a newline), repeated min to
\* max times. re.IGNORECASE: a token matches when its lower case is in set.
\* the cap that stands for an unbounded repetition (+, *)
MaxRepeat == 99
Lit(c) == [any |-> FALSE, set |-> {c}, min |-> 1, max |-> 1, greedy |-> TRUE]
Rep(S, lo, hi) == [any |-> FALSE, set |-> S, min |-> lo, max |-> hi, greedy |-> TRUE]
AnyRep(lo, hi, g) == [any |-> TRUE, set |-> {}, min |-> lo, max |-> hi, greedy |-> g]

InClass(item, c) ==
    IF item.any THEN c # NL ELSE LowerTok(c) \in item.set

\* the longest run of tokens of the item's class at position i, capped
RECURSIVE RunLen(_, _, _, _)
RunLen(item, t, i, n) ==
    IF n < item.max /\ i + n <= Len(t) /\ InClass(item, t[i + n])
    THEN RunLen(item, t, i, n + 1) ELSE n

\* the least number of a non-empty set of numbers
Least(S) == CHOOSE x \in S : \A y \in S : x <= y

\* items k..(FixedEnd - 1) of the pattern are repeated a fixed number of times
FixedEnd(re, k) ==
    Least({j \in k..(Len(re) + 1) : j = Len(re) + 1 \/ re[j].min # re[j].max})

\* the number of tokens that the fixed items k..(j - 1) take
Offset(re, k, j) ==
    Cardinality(UNION {{<<m, c>> : c \in 1..re[m].min} : m \in k..(j - 1)})

\* the fixed items k..(e - 1) match at position i
FixedFits(re, k, e, t, i) ==
    \A j \in k..(e - 1) : RunLen(re[j], t, i + Offset(re, k, j), 0) = re[j].min

\* the positions of a match whose rest is `rest`, <<>> if the rest fails
Before(starts, rest) == IF rest = <<>> THEN <<>> ELSE starts \o rest

\* The backtracking match of items k.. of pattern re at position i of t:
\* <<>> when there is none, else the start position of every item from k on
\* followed by the end position, for the match the engine prefers. A run of
\* items with a fixed count (k up to e) matches in one way or not at all.
RECURSIVE MatchItems(_, _, _, _), MatchFixed(_, _, _, _, _), TryCount(_, _, _, _, _, _)
MatchItems(re, k, t, i) ==
    IF k > Len(re) THEN <<i>>
    ELSE IF re[k].min > 0 /\ (i > Len(t) \/ ~InClass(re[k], t[i])) THEN <<>>
    ELSE IF re[k].min = re[k].max THEN MatchFixed(re, k, FixedEnd(re, k), t, i)
    ELSE LET run == RunLen(re[k], t, i, 0)
         IN IF run < re[k].min THEN <<>>
            ELSE TryCount(re, k, t, i,
                          IF re[k].greedy THEN run ELSE re[k].min, run)
MatchFixed(re, k, e, t, i) ==
    IF FixedFits(re, k, e, t, i)
    THEN Before([j \in 1..(e - k) |-> i + Offset(re, k, k + j - 1)],
                MatchItems(re, e, t, i + Offset(re, k, e)))
    ELSE <<>>
TryCount(re, k, t, i, n, run) ==
    IF n < re[k].min \/ n > run THEN <<>>
    ELSE LET rest == MatchItems(re, k + 1, t, i + n)
         IN IF rest # <<>> THEN Before(<<i>>, rest)
            ELSE TryCount(re, k, t, i,
                          IF re[k].greedy THEN n - 1 ELSE n + 1, run)

\* re.search: the match at the leftmost position from `from` on, <<>> if none
MatchAmong(re, t, starts) ==
    IF starts = {} THEN <<>> ELSE MatchItems(re, 1, t, Least(starts))
Search(re, t, from) ==
    MatchAmong(re, t, {p \in from..(Len(t) + 1) : MatchItems(re, 1, t, p) # <<>>})

\* the text of items g..h of a match m
Group(t, m, g, h) == SubSeq(t, m[g], m[h + 1] - 1)

\* ---------------------------------------------------------------------
\* datetime: now(), strftime, strptime
\* ---------------------------------------------------------------------
\* Days are ordered by a key that grows with the calendar date; the clock
\* of the model stays within the first minutes of 2000-01-01.
DateKey(y, m, d) == (y * 12 + (m - 1)) * 31 + (d - 1)
EpochDate == DateKey(2000, 1, 1)
DateTime(dk, tk) == [date |-> dk, tick |-> tk]

\* datetime.now() when the clock shows t
NowAt(t) == DateTime(EpochDate, t)

\* a <= b on datetimes
DtLE(a, b) == a.date < b.date \/ (a.date = b.date /\ a.tick <= b.tick)

TwoDigits(n) == <<Digits[(n \div 10) + 1], Digits[(n % 10) + 1]>>
\* str(n) of a small number
IntToStr(n) == IF n < 10 THEN <<Digits[n + 1]>> ELSE TwoDigits(n)
Num2(s, i) == DigitVal(s[i]) * 10 + DigitVal(s[i + 1])
Num4(s, i) == Num2(s, i) * 100 + Num2(s, i + 2)
AllDigits(s, I) == \A i \in I : IsDigit(s[i])

\* datetime.now().strftime("%d.%m.%Y %H:%M") when the clock shows t: the
\* ticks below the minute are dropped
StrftimeDMYHM(t) ==
    LET minute == t \div TicksPerMinute
    IN <<"0", "1", ".", "0", "1", ".", "2", "0", "0", "0", " ">>
       \o TwoDigits(minute \div 60) \o <<":">> \o TwoDigits(minute % 60)

\* the days of month m of year y
IsLeap(y) == y % 4 = 0 /\ (y % 100 # 0 \/ y % 400 = 0)
DaysIn(y, m) ==
    IF m = 2 THEN (IF IsLeap(y) THEN 29 ELSE 28)
    ELSE IF m \in {4, 6, 9, 11} THEN 30 ELSE 31

\* the number one or two digits of s spell from position i, the field being
\* n tokens long
NumAt(s, i, n) == IF n = 1 THEN DigitVal(s[i]) ELSE Num2(s, i)

\* datetime.strptime(s, "%d.%m.%Y %H:%M"): [ok |-> FALSE] stands for
\* ValueError. %d, %m, %H and %M are one or two digits, %Y is four
StrptimeDMYHM(s) ==
    LET fits(d, m, h, n) ==
            /\ Len(s) = 8 + d + m + h + n
            /\ s[d + 1] = "." /\ s[d + m + 2] = "." /\ s[d + m + 7] = " "
            /\ s[d + m + h + 8] = ":"
            /\ AllDigits(s, (1..d) \cup ((d + 2)..(d + m + 1))
                               \cup ((d + m + 3)..(d + m + 6))
                               \cup ((d + m + 8)..(d + m + h + 7))
                               \cup ((d + m + h + 9)..(d + m + h + n + 8)))
            /\ Num4(s, d + m + 3) >= 1
            /\ NumAt(s, d + 2, m) \in 1..12
            /\ NumAt(s, 1, d) \in 1..DaysIn(Num4(s, d + m + 3), NumAt(s, d + 2, m))
            /\ NumAt(s, d + m + 8, h) \in 0..23
            /\ NumAt(s, d + m + h + 9, n) \in 0..59
        shapes == {x \in {1, 2} \X {1, 2} \X {1, 2} \X {1, 2} :
                      fits(x[1], x[2], x[3], x[4])}
    IN IF shapes # {}
       THEN LET x == CHOOSE x \in shapes : TRUE
                d == x[1]
                m == x[2]
                h == x[3]
                n == x[4]
            IN [ok |-> TRUE,
                dt |-> DateTime(DateKey(Num4(s, d + m + 3), NumAt(s, d + 2, m),
                                        NumAt(s, 1, d)),
                                (NumAt(s, d + m + 8, h) * 60 + NumAt(s, d + m + h + 9, n))
                                   * TicksPerMinute)]
       ELSE [ok |-> FALSE, dt |-> DateTime(0, 0)]

\* datetime.strptime(s, "%Y-%m-%d"): midnight of the day. %Y is four
\* digits, %m and %d one or two; [ok |-> FALSE] stands for ValueError
StrptimeYMD(s) ==
    LET fits(m, d) ==
            /\ Len(s) = 6 + m + d
            /\ s[5] = "-" /\ s[6 + m] = "-"
            /\ AllDigits(s, (1..4) \cup (6..(5 + m)) \cup ((7 + m)..(6 + m + d)))
            /\ Num4(s, 1) >= 1
            /\ NumAt(s, 6, m) \in 1..12
            /\ NumAt(s, 7 + m, d) \in 1..DaysIn(Num4(s, 1), NumAt(s, 6, m))
        shapes == {md \in {1, 2} \X {1, 2} : fits(md[1], md[2])}
    IN IF shapes # {}
       THEN LET md == CHOOSE x \in shapes : TRUE
            IN [ok |-> TRUE,
                dt |-> DateTime(DateKey(Num4(s, 1), NumAt(s, 6, md[1]),
                                        NumAt(s, 7 + md[1], md[2])), 0)]
       ELSE [ok |-> FALSE, dt |-> DateTime(0, 0)]

\* ---------------------------------------------------------------------
\* The files an ingestion can be given
\* ---------------------------------------------------------------------
\* "INN zakazchika: 7701234567", "Srok ispolneniya: 01.01.2099 10:00" and
\* "artikul: AB12 cena 1500", one per line
TextLabelled ==
    <<"INN zakazchika", ":", " ", "7", "7", "0", "1", "2", "3", "4", "5", "6", "7", NL,
      "Srok ispolneniya", ":", " ",
      "0", "1", ".", "0", "1", ".", "2", "0", "9", "9", " ", "1", "0", ":", "0", "0", NL,
      "artikul", ":", " ", "A", "B", "1", "2", " ", "cena", " ", "1", "5", "0", "0">>
\* a text that spells the escapes of the patterns out:
\* "INN zakazchika:\dddddddddd" and "Srok ispolneniya:\dd\.\dd\.\dddd\s\dd:\dd"
TextEscapes ==
    <<"INN zakazchika", ":", BS, "d", "d", "d", "d", "d", "d", "d", "d", "d", "d", NL,
      "Srok ispolneniya", ":",
      BS, "d", "d", BS, ".", BS, "d", "d", BS, ".", BS, "d", "d", "d", "d",
      BS, "s", BS, "d", "d", ":", BS, "d", "d">>
TextPlain == <<"p", "r", "i", "n", "t", "e", "r">>
\* "Srok ispolneniya: 01.01.2099 10:00" and "artikul: AB12 cena 1500"
TextTwoLines ==
    <<"Srok ispolneniya", ":", " ",
      "0", "1", ".", "0", "1", ".", "2", "0", "9", "9", " ", "1", "0", ":", "0", "0", NL,
      "artikul", ":", " ", "A", "B", "1", "2", " ", "cena", " ", "1", "5", "0", "0", NL>>

NoFile == [ext |-> <<>>, text |-> EmptyStr, zip |-> "n/a", members |-> <<>>,
           xml |-> "n/a", runs |-> <<>>]
TxtFile(t) == [NoFile EXCEPT !.ext = <<".", "t", "x", "t">>, !.text = t]
\* zip: "ok" | "notzip" (not a zip file at all) | "partial" (a member after
\* `members` is damaged: extractall writes `members` and then fails)
ZipFile(state, ms) ==
    [NoFile EXCEPT !.ext = <<".", "z", "i", "p">>, !.zip = state, !.members = ms]
\* a word-processor container: zip as above or "nopart" (no
\* word/document.xml in it); xml: "ok" | "malformed"; runs: the text nodes
DocxFile(z, x, rs) ==
    [NoFile EXCEPT !.ext = <<".", "D", "O", "C", "X">>, !.zip = z, !.xml = x, !.runs = rs]
\* a spreadsheet container: zip "ok" | "notzip" | "nopart" (nothing under
\* xl/worksheets); xml: "ok" | "malformed"; runs: the values of the cells
XlsxFile(z, x, rs) ==
    [NoFile EXCEPT !.ext = <<".", "x", "l", "s", "x">>, !.zip = z, !.xml = x, !.runs = rs]
OtherFile(e) == [NoFile EXCEPT !.ext = e]

\* the uploaded files, and (under tmp/) the members the archives unpack
Disk ==
    [f \in {"a.txt", "esc.txt", "b.txt", "lines.txt", "ok.zip", "two.zip", "nest.zip",
            "bad.zip", "part.zip", "badxml.docx", "junk.docx", "good.docx",
            "badxml.xlsx", "x.exe", "Y.BAT", "r.rar", "p.png", "u.dat",
            "tmp/a.txt", "tmp/b.txt", "tmp/inner.zip", "tmp/x.exe",
            "tmp/c.txt"} |->
       CASE f \in {"a.txt", "tmp/a.txt"} -> TxtFile(TextLabelled)
         [] f = "esc.txt" -> TxtFile(TextEscapes)
         [] f = "lines.txt" -> TxtFile(TextTwoLines)
         [] f \in {"b.txt", "tmp/b.txt", "tmp/c.txt"} -> TxtFile(TextPlain)
         [] f = "ok.zip" -> ZipFile("ok", <<"tmp/a.txt">>)
         [] f = "two.zip" -> ZipFile("ok", <<"tmp/b.txt", "tmp/x.exe">>)
         [] f = "nest.zip" -> ZipFile("ok", <<"tmp/inner.zip">>)
         [] f = "tmp/inner.zip" -> ZipFile("ok", <<"tmp/c.txt">>)
         [] f = "bad.zip" -> ZipFile("notzip", <<>>)
         [] f = "part.zip" -> ZipFile("partial", <<"tmp/b.txt">>)
         [] f = "badxml.docx" -> DocxFile("ok", "malformed", <<>>)
         [] f = "junk.docx" -> DocxFile("notzip", "n/a", <<>>)
         [] f = "good.docx" -> DocxFile("ok", "ok", <<TextPlain, TextEscapes>>)
         [] f = "badxml.xlsx" -> XlsxFile("ok", "malformed", <<>>)
         [] f \in {"x.exe", "tmp/x.exe"} -> OtherFile(<<".", "e", "x", "e">>)
         [] f = "Y.BAT" -> OtherFile(<<".", "B", "A", "T">>)
         [] f = "r.rar" -> OtherFile(<<".", "r", "a", "r">>)
         [] f = "p.png" -> OtherFile(<<".", "p", "n", "g">>)
         [] OTHER -> OtherFile(<<".", "d", "a", "t">>)]

\* os.walk lists a directory in an order the file system decides; the model
\* fixes one
WalkOrder == <<"tmp/a.txt", "tmp/b.txt", "tmp/c.txt", "tmp/inner.zip", "tmp/x.exe">>

ALLOWED_DOCS == {<<".", "p", "d", "f">>, <<".", "d", "o", "c", "x">>, <<".", "t", "x", "t">>}
ALLOWED_TABLES == {<<".", "x", "l", "s", "x">>, <<".", "x", "l", "s">>, <<".", "c", "s", "v">>}
ALLOWED_IMAGES == {<<".", "j", "p", "g">>, <<".", "j", "p", "e", "g">>,
                   <<".", "p", "n", "g">>, <<".", "t", "i", "f", "f">>, <<".", "b", "m", "p">>}
ALLOWED_ARCHIVES == {<<".", "z", "i", "p">>, <<".", "r", "a", "r">>}
BLOCKED_EXTENSIONS == {<<".", "e", "x", "e">>, <<".", "b", "a", "t">>, <<".", "v", "b", "s">>}

\* optional imports of the module: rarfile and PIL are not installed
rarfile == FALSE
Image == FALSE

\* ---------------------------------------------------------------------
\* FormatExtractors
\* ---------------------------------------------------------------------
\* A step that can raise returns [exc |-> "none" or the exception, ...].
\* a variant that takes the extension as it is written
ExtAsWritten(path) == Disk[path].ext

\* os.path.splitext(path)[1].lower()
Ext(path) == Lower(Disk[path].ext)

\* _extract_product_candidates: the pattern as the source spells it, with
\* every backslash doubled inside a raw string:
\*   (artikul|art\\.?)[\\s:]+(?P<code>\\w+).*?(?P<price>\\d+[\\s\\d.,]*)
\* "\\" is a literal backslash, so "\\s" in a class is a backslash or an s
CandidateTail ==
    <<Rep({BS, "s", ":"}, 1, MaxRepeat), Lit(BS), Rep({"w"}, 1, MaxRepeat),
      AnyRep(0, MaxRepeat, FALSE),
      Lit(BS), Rep({"d"}, 1, MaxRepeat), Rep({BS, "s", "d", ".", ","}, 0, MaxRepeat)>>
CandidatePatternA == <<Lit("artikul")>> \o CandidateTail
CandidatePatternB == <<Lit("art"), Lit(BS), AnyRep(0, 1, TRUE)>> \o CandidateTail

Replace(str, c) == SelectSeq(str, LAMBDA x : x # c)

\* the groups of a match m: where it ends, the code and the price
GroupsOf(t, m, code, price) ==
    <<[end |-> m[Len(m)], code |-> Group(t, m, code, code + 1),
       price |-> Group(t, m, price, price + 2)]>>

\* the alternation: a is the match of the first branch, b of the second
Alternation(t, a, b) ==
    IF a # <<>> THEN GroupsOf(t, a, 3, 6)
    ELSE IF b # <<>> THEN GroupsOf(t, b, 5, 8)
    ELSE <<>>

\* the match of the pattern at position i: [end, code, price] or <<>>
CandidateAt(t, i) ==
    Alternation(t, MatchItems(CandidatePatternA, 1, t, i),
                   MatchItems(CandidatePatternB, 1, t, i))

\* the position of the next match from i on, Len(t) + 1 when there is none
NextCandidate(t, i) ==
    Least({p \in i..(Len(t) + 1) : p = Len(t) + 1 \/ CandidateAt(t, p) # <<>>})

\* pattern.finditer(text): the matches from left to right, none overlapping;
\* c is the match at p, the search goes on where it ends
RECURSIVE FindCandidates(_, _), CandidatesFrom(_, _), CandidateThen(_, _, _)
FindCandidates(t, i) == CandidatesFrom(t, NextCandidate(t, i))
CandidatesFrom(t, p) ==
    IF p > Len(t) THEN <<>> ELSE CandidateThen(t, p, CandidateAt(t, p))
CandidateThen(t, p, c) ==
    <<[code |-> c[1].code, price |-> Replace(c[1].price, " ")]>>
    \o FindCandidates(t, Max(c[1].end, p + 1))

_extract_product_candidates(text) == FindCandidates(text, 1)

\* archive.read(part) followed by the walk over the XML tree
_extract_text_from_docx(path) ==
    LET f == Disk[path]
    IN IF f.zip \in {"notzip", "nopart"} THEN [exc |-> "none", text |-> EmptyStr]
       ELSE IF f.xml = "malformed" THEN [exc |-> "ParseError", text |-> EmptyStr]
       ELSE [exc |-> "none", text |-> Join(f.runs, <<NL>>)]

_extract_text_from_xlsx(path) ==
    LET f == Disk[path]
    IN IF f.zip \in {"notzip", "nopart"} THEN [exc |-> "none", text |-> EmptyStr]
       ELSE IF f.xml = "malformed" THEN [exc |-> "ParseError", text |-> EmptyStr]
       ELSE [exc |-> "none", text |-> Join(f.runs, <<NL>>)]

_extract_text_from_document(path) ==
    IF Ext(path) = <<".", "t", "x", "t">>
    THEN [exc |-> "none", text |-> Disk[path].text]
    ELSE IF Ext(path) = <<".", "d", "o", "c", "x">>
    THEN _extract_text_from_docx(path)
    ELSE [exc |-> "none", text |-> EmptyStr]

_extract_text_from_table(path) ==
    IF Ext(path) = <<".", "c", "s", "v">>
    THEN [exc |-> "none", text |-> Disk[path].text]
    ELSE IF Ext(path) = <<".", "x", "l", "s", "x">>
    THEN _extract_text_from_xlsx(path)
    ELSE [exc |-> "none", text |-> EmptyStr]

\* Image is None: the placeholder returns ""
_extract_text_from_image(path) == [exc |-> "none", text |-> EmptyStr]

\* ---------------------------------------------------------------------
\* ArchiveWalker
\* ---------------------------------------------------------------------
Metadata(path, extension, blocked) ==
    [file |-> path, type |-> extension, blocked |-> blocked,
     error |-> Missing, processed_files |-> Missing]

_metadata(path, extension, text, blocked, product_candidates) ==
    [text |-> text, product_candidates |-> product_candidates,
     metadata |-> Metadata(path, extension, blocked)]

NoResult == _metadata("", EmptyStr, EmptyStr, FALSE, <<>>)

\* the outcome of one file: the exception or the result, and the files that
\* are in the temporary directory afterwards
Returned(res, td) == [exc |-> "none", res |-> res, td |-> td]
Raised(e, td) == [exc |-> e, res |-> NoResult, td |-> td]

Extracted(path, x, td) ==
    IF x.exc # "none" THEN Raised(x.exc, td)
    ELSE Returned(_metadata(path, Ext(path), x.text, FALSE,
                            _extract_product_candidates(x.text)), td)

\* the files os.walk(temp_dir) yields
WalkList(td) == SelectSeq(WalkOrder, LAMBDA n : n \in td)

RECURSIVE _process_single_file(_, _, _), _process_archive(_, _, _), WalkNested(_, _, _, _, _)
_process_single_file(path, td, depth) ==
    LET extension == Ext(path)
    IN IF extension \in BLOCKED_EXTENSIONS
       THEN Returned(_metadata(path, extension, EmptyStr, TRUE, <<>>), td)
       ELSE IF extension \in ALLOWED_ARCHIVES THEN _process_archive(path, td, depth)
       ELSE IF extension \in ALLOWED_IMAGES
       THEN Extracted(path, _extract_text_from_image(path), td)
       ELSE IF extension \in ALLOWED_TABLES
       THEN Extracted(path, _extract_text_from_table(path), td)
       ELSE IF extension \in ALLOWED_DOCS
       THEN Extracted(path, _extract_text_from_document(path), td)
       ELSE Returned(_metadata(path, extension, EmptyStr, FALSE, <<>>), td)

\* the loop over os.walk(temp_dir): names is what is left of the listing,
\* texts and cands what the loop has collected
WalkNested(names, td, depth, texts, cands) ==
    IF names = <<>> THEN [exc |-> "none", texts |-> texts, cands |-> cands, td |-> td]
    ELSE LET nested == _process_single_file(Head(names), td, depth)
         IN IF nested.exc # "none"
            THEN [exc |-> nested.exc, texts |-> texts, cands |-> cands, td |-> nested.td]
            ELSE WalkNested(Tail(names), nested.td, depth,
                            Append(texts, nested.res.text),
                            cands \o nested.res.product_candidates)

\* a variant that raises for an archive it cannot decode
_process_archive_raising(path, td, depth) ==
    LET extension == Ext(path)
        f == Disk[path]
        metadata == Metadata(path, extension, FALSE)
    IN IF depth >= RecursionLimit THEN Raised("RecursionError", td)
       ELSE IF extension = <<".", "z", "i", "p">> /\ f.zip = "notzip"
       THEN Raised("BadZipFile", td)
       ELSE IF extension = <<".", "z", "i", "p">> /\ f.zip = "partial"
       THEN Raised("BadZipFile", td \cup Range(f.members))
       ELSE IF extension = <<".", "z", "i", "p">>
       THEN LET unpacked == td \cup Range(f.members)
                w == WalkNested(WalkList(unpacked), unpacked, depth + 1, <<>>, <<>>)
            IN IF w.exc # "none" THEN Raised(w.exc, w.td)
               ELSE Returned(
                      [text |-> JoinLines(w.texts),
                       product_candidates |-> w.cands,
                       metadata |-> [metadata EXCEPT
                                       !.processed_files = IntToStr(Len(w.texts))]],
                      w.td)
       ELSE Raised("NotImplementedError", td)

_process_archive(path, td, depth) ==
    LET extension == Ext(path)
        f == Disk[path]
        metadata == Metadata(path, extension, FALSE)
    IN IF depth >= RecursionLimit THEN Raised("RecursionError", td)
       ELSE IF extension = <<".", "z", "i", "p">> /\ f.zip = "notzip"
       THEN Raised("BadZipFile", td)
       ELSE IF extension = <<".", "z", "i", "p">> /\ f.zip = "partial"
       THEN Raised("BadZipFile", td \cup Range(f.members))
       ELSE IF extension = <<".", "z", "i", "p">>
       THEN LET unpacked == td \cup Range(f.members)
                w == WalkNested(WalkList(unpacked), unpacked, depth + 1, <<>>, <<>>)
            IN IF w.exc # "none" THEN Raised(w.exc, w.td)
               ELSE Returned(
                      [text |-> JoinLines(w.texts),
                       product_candidates |-> w.cands,
                       metadata |-> [metadata EXCEPT
                                       !.processed_files = IntToStr(Len(w.texts))]],
                      w.td)
       ELSE \* ".rar" without rarfile
            Returned([text |-> EmptyStr, product_candidates |-> <<>>,
                      metadata |-> [metadata EXCEPT
                                      !.error = <<"Arhiv RAR ne podderzhivaetsya">>]],
                     td)

\* ---------------------------------------------------------------------
\* FieldExtractor and TenderRecordBuilder
\* ---------------------------------------------------------------------
\* r"INN zakazchika[:\\s]+(\\d{10,12})": the class is a colon, a backslash
\* or an s; the group is a backslash and ten to twelve letters d
InnPattern ==
    <<Lit("INN zakazchika"), Rep({":", BS, "s"}, 1, MaxRepeat),
      Lit(BS), Rep({"d"}, 10, 12)>>
\* r"Srok ispolneniya[:\\s]+(\\d{2}\\.\\d{2}\\.\\d{4}\\s\\d{2}:\\d{2})":
\* "\\d{2}" is a backslash and two letters d, "\\." a backslash and any
\* character, "\\s" a backslash and an s
DeadlinePattern ==
    <<Lit("Srok ispolneniya"), Rep({":", BS, "s"}, 1, MaxRepeat),
      Lit(BS), Rep({"d"}, 2, 2), Lit(BS), AnyRep(1, 1, TRUE),
      Lit(BS), Rep({"d"}, 2, 2), Lit(BS), AnyRep(1, 1, TRUE),
      Lit(BS), Rep({"d"}, 4, 4), Lit(BS), Lit("s"),
      Lit(BS), Rep({"d"}, 2, 2), Lit(":"), Lit(BS), Rep({"d"}, 2, 2)>>

\* match.group(1) when the pattern matched
GroupOrMissing(text, match, g, h) ==
    IF match # <<>> THEN Group(text, match, g, h) ELSE Missing

\* the dict of the fields that matched; a key that did not is Missing
_extract_fields_from_text(text) ==
    [customer_inn |-> GroupOrMissing(text, Search(InnPattern, text, 1), 3, 4),
     submission_deadline |->
        GroupOrMissing(text, Search(DeadlinePattern, text, 1), 3, Len(DeadlinePattern))]

Manual == <<"m", "a", "n", "u", "a", "l">>

\* a variant that leaves the deadline empty when none was extracted
_build_tender_data_no_deadline(fields, t) ==
    [tender_id_or_url |->
        IF Truthy(fields.customer_inn) THEN fields.customer_inn ELSE Manual,
     title |-> <<"Ruchnaya zakupka">>,
     submission_deadline |->
        IF Truthy(fields.submission_deadline) THEN fields.submission_deadline
        ELSE EmptyStr,
     nmck |-> <<"0", ".", "0">>]

\* _build_tender_data at clock t (the keys the record is built from)
_build_tender_data(fields, t) ==
    [tender_id_or_url |->
        IF Truthy(fields.customer_inn) THEN fields.customer_inn ELSE Manual,
     title |-> <<"Ruchnaya zakupka">>,
     submission_deadline |->
        IF Truthy(fields.submission_deadline) THEN fields.submission_deadline
        ELSE StrftimeDMYHM(t),
     nmck |-> <<"0", ".", "0">>]

StatusActive == <<"aktualna">>
StatusExpired == <<"prosrochena">>
StatusNew == <<"novyj">>

\* a variant for which the deadline itself is still in time
_evaluate_status_strict(deadline, t) ==
    LET end_time == StrptimeDMYHM(deadline)
    IN IF ~end_time.ok THEN StatusActive
       ELSE IF ~DtLE(NowAt(t), end_time.dt) THEN StatusExpired ELSE StatusActive

\* _evaluate_status at clock t
_evaluate_status(deadline, t) ==
    LET end_time == StrptimeDMYHM(deadline)
    IN IF ~end_time.ok THEN StatusActive
       ELSE IF DtLE(end_time.dt, NowAt(t)) THEN StatusExpired ELSE StatusActive

\* the record _save_manual_tender builds
ManualRecord(tender, t) ==
    [number |-> tender.tender_id_or_url,
     title |-> tender.title,
     price |-> tender.nmck,
     deadline |-> tender.submission_deadline,
     url |-> tender.tender_id_or_url,
     platform |-> Manual,
     status |-> _evaluate_status(tender.submission_deadline, t)]

\* ---------------------------------------------------------------------
\* Registry
\* ---------------------------------------------------------------------
Numbers(records) == {records[i].number : i \in 1..Len(records)}

\* a variant that stores the new record over the one with its number
_save_registry_record_overwrite(existing, record) ==
    IF record.number \notin Numbers(existing) THEN Append(existing, record)
    ELSE [i \in 1..Len(existing) |->
            IF existing[i].number = record.number THEN record ELSE existing[i]]

\* a variant without the test for the number
_save_registry_record_always(existing, record) == Append(existing, record)

\* ManualTenderEntry._save_registry_record: the file after the call
_save_registry_record(existing, record) ==
    IF record.number \notin Numbers(existing) THEN Append(existing, record)
    ELSE existing

\* the record TenderMonitor._save_registry builds of a candidate
MonitorRecord(tender) ==
    [number |-> Get(tender, "number"),
     title |-> Get(tender, "title"),
     price |-> Get(tender, "price"),
     deadline |-> Get(tender, "deadline"),
     url |-> Get(tender, "url"),
     platform |-> Get(tender, "platform"),
     status |-> GetDefault(tender, "status", StatusNew)]

\* the loop of TenderMonitor._save_registry: existing_ids is computed once,
\* before the loop
RECURSIVE NewRecords(_, _)
NewRecords(tenders, existing_ids) ==
    IF tenders = <<>> THEN <<>>
    ELSE IF Get(Head(tenders), "number") \in existing_ids
    THEN NewRecords(Tail(tenders), existing_ids)
    ELSE <<MonitorRecord(Head(tenders))>> \o NewRecords(Tail(tenders), existing_ids)

\* a variant that appends a record for every tender it is given
_save_registry_all(existing, tenders) ==
    existing \o [i \in 1..Len(tenders) |-> MonitorRecord(tenders[i])]

\* TenderMonitor._save_registry: the file after the call
_save_registry(existing, tenders) ==
    existing \o NewRecords(tenders, Numbers(existing))

\* ---------------------------------------------------------------------
\* MatchingEngine
\* ---------------------------------------------------------------------
\* \w of the re module
WordSet == LowerSet \cup UpperSet \cup DigitSet \cup {"_"}
IsWordTok(c) == c \in WordSet
IsSpaceTok(c) == c \in {" ", NL, "\t"}

\* the maximal runs of kept tokens of a str, in order: re.findall(r"\w+", s)
\* keeps the word tokens (byWord), s.split() everything but white space
Keep(c, byWord) == IF byWord THEN IsWordTok(c) ELSE ~IsSpaceTok(c)
\* where a run begins, and the run that begins there
RunStarts(str, byWord) ==
    {i \in 1..Len(str) : Keep(str[i], byWord) /\ (i = 1 \/ ~Keep(str[i - 1], byWord))}
RunAt(str, i, byWord) ==
    LET ends == {j \in i..Len(str) : \A c \in i..j : Keep(str[c], byWord)}
    IN SubSeq(str, i, CHOOSE j \in ends : \A e \in ends : e <= j)
Runs(str, byWord) ==
    LET starts == RunStarts(str, byWord)
    IN [n \in 1..Cardinality(starts) |->
          RunAt(str, CHOOSE i \in starts : Cardinality({x \in starts : x <= i}) = n,
                byWord)]

FindWords(str) == Runs(str, TRUE)
Split(str) == Runs(str, FALSE)

\* words[i : j] with 0 <= i and 0 <= j (0-based, j exclusive)
Slice(words, i, j) == SubSeq(words, i + 1, Min(j, Len(words)))

\* a variant whose window is as long as the distance
_nearby_words_narrow(text, term, distance) ==
    LET words == FindWords(Lower(text))
        target == Split(Lower(term))
    IN IF target = <<>> \/ words = <<>> THEN FALSE
       ELSE \E i \in 0..(Len(words) - 1) :
              LET window == Slice(words, i, i + distance)
              IN \A k \in 1..Len(target) : target[k] \in Range(window)

_nearby_words(text, term, distance) ==
    LET words == FindWords(Lower(text))
        target == Split(Lower(term))
    IN IF target = <<>> \/ words = <<>> THEN FALSE
       ELSE \E i \in 0..(Len(words) - 1) :
              LET window == Slice(words, i, i + distance + Len(target))
              IN \A k \in 1..Len(target) : target[k] \in Range(window)

\* a variant that looks for the whole term
_any_ending_match_whole(text, term) ==
    IF term = EmptyStr THEN FALSE
    ELSE Contains(Lower(term), Lower(text))

_any_ending_match(text, term) ==
    IF term = EmptyStr THEN FALSE
    ELSE LET normalized == SubSeq(Lower(term), 1, Len(term) - 1)
         IN Contains(normalized, Lower(text))

\* the branch of _matches_terms for one rule [term, mode, distance]
RuleMatches(lowered, rule) ==
    CASE rule.mode = "exact_in_text" -> Contains(Lower(rule.term), lowered)
      [] rule.mode = "nearby_words" -> _nearby_words(lowered, rule.term, rule.distance)
      [] rule.mode = "any_ending" -> _any_ending_match(lowered, rule.term)
      [] OTHER -> FALSE

\* a variant that accepts by default only a text that is not empty
_matches_terms_nonempty(text, terms, search_modes) ==
    IF terms = {} /\ search_modes = <<>> THEN text # EmptyStr
    ELSE LET lowered == Lower(text)
         IN \/ \E term \in terms : term # EmptyStr /\ Contains(Lower(term), lowered)
            \/ \E k \in 1..Len(search_modes) : RuleMatches(lowered, search_modes[k])

\* a variant that asks for every free term and every rule
_matches_terms_every(text, terms, search_modes) ==
    IF terms = {} /\ search_modes = <<>> THEN TRUE
    ELSE LET lowered == Lower(text)
         IN /\ \A term \in terms : term # EmptyStr /\ Contains(Lower(term), lowered)
            /\ \A k \in 1..Len(search_modes) : RuleMatches(lowered, search_modes[k])

\* terms: a set of strs; search_modes: a sequence of rules
_matches_terms(text, terms, search_modes) ==
    IF terms = {} /\ search_modes = <<>> THEN TRUE
    ELSE LET lowered == Lower(text)
         IN \/ \E term \in terms : term # EmptyStr /\ Contains(Lower(term), lowered)
            \/ \E k \in 1..Len(search_modes) : RuleMatches(lowered, search_modes[k])

\* a variant whose deadline day is still open at its first instant
_is_expired_strict(tender, current_time) ==
    LET deadline == Get(tender, "deadline")
    IN IF ~Truthy(deadline) THEN FALSE
       ELSE LET end_time == StrptimeYMD(deadline)
            IN IF ~end_time.ok THEN FALSE
               ELSE ~DtLE(current_time, end_time.dt)

\* current_time: a datetime
_is_expired(tender, current_time) ==
    LET deadline == Get(tender, "deadline")
    IN IF ~Truthy(deadline) THEN FALSE
       ELSE LET end_time == StrptimeYMD(deadline)
            IN IF ~end_time.ok THEN FALSE
               ELSE DtLE(end_time.dt, current_time)

\* profile: [kind |-> "none" | "list" | "scalar", items |-> the okved codes]
\* ("none": no profile, no classifiers or no okved key)
_profile_okved_terms(profile) ==
    IF profile.kind = "list" THEN profile.items
    ELSE IF profile.kind = "scalar" /\ Truthy(profile.items[1]) THEN <<profile.items[1]>>
    ELSE <<>>

\* a variant that lets a candidate without a stage through
PassesStageless(tender, terms, search_modes, regions, categories, stages, platforms, current_time) ==
    IF _is_expired(tender, current_time) THEN FALSE
    ELSE IF regions # {} /\ Get(tender, "region") \notin regions THEN FALSE
    ELSE IF categories # {} /\ Get(tender, "category") \notin categories THEN FALSE
    ELSE IF stages # {} /\ tender.stage # Missing /\ tender.stage \notin stages THEN FALSE
    ELSE IF platforms # {} /\ Get(tender, "platform") \notin platforms THEN FALSE
    ELSE LET d == GetDefault(tender, "description", EmptyStr)
             description == IF Truthy(d) THEN d ELSE EmptyStr
         IN _matches_terms(description, terms, search_modes)

\* one pass of the loop of filter_tenders: does the tender reach append?
Passes(tender, terms, search_modes, regions, categories, stages, platforms, current_time) ==
    IF _is_expired(tender, current_time) THEN FALSE
    ELSE IF regions # {} /\ Get(tender, "region") \notin regions THEN FALSE
    ELSE IF categories # {} /\ Get(tender, "category") \notin categories THEN FALSE
    ELSE IF stages # {} /\ Get(tender, "stage") \notin stages THEN FALSE
    ELSE IF platforms # {} /\ Get(tender, "platform") \notin platforms THEN FALSE
    ELSE LET d == GetDefault(tender, "description", EmptyStr)
             description == IF Truthy(d) THEN d ELSE EmptyStr
         IN _matches_terms(description, terms, search_modes)

\* lines 75-77 of filter_tenders: the set of free terms it matches with
EffectiveTerms(search_params, profile) ==
    LET okved_terms == _profile_okved_terms(profile)
    IN Range(search_params.tools_and_terms) \cup Range(okved_terms)

\* a variant that returns each tender with the description it was matched by
filter_tenders_described(tenders, search_params, current_time, profile) ==
    LET terms == EffectiveTerms(search_params, profile)
        kept == SelectSeq(tenders,
                          LAMBDA tender : Passes(tender, terms, search_params.search_modes,
                                                 Range(search_params.regions),
                                                 Range(search_params.categories),
                                                 Range(search_params.stages),
                                                 Range(search_params.platforms),
                                                 current_time))
    IN [i \in 1..Len(kept) |->
          [kept[i] EXCEPT !.description = IF Truthy(@) THEN @ ELSE EmptyStr]]

filter_tenders(tenders, search_params, current_time, profile) ==
    LET terms == EffectiveTerms(search_params, profile)
        search_modes == search_params.search_modes
        regions == Range(search_params.regions)
        categories == Range(search_params.categories)
        stages == Range(search_params.stages)
        platforms == Range(search_params.platforms)
    IN SelectSeq(tenders,
                 LAMBDA tender : Passes(tender, terms, search_modes, regions,
                                        categories, stages, platforms, current_time))

_default_search_params ==
    [tools_and_terms |-> <<>>, search_modes |-> <<>>, regions |-> <<>>,
     categories |-> <<>>, stages |-> <<>>, platforms |-> <<>>]

\* ---------------------------------------------------------------------
\* SearchParameterStore
\* ---------------------------------------------------------------------
\* the JSON documents json.dump(..., ensure_ascii=False) writes and
\* json.load reads: a str is a string literal, in quotes, with the quote, the
\* backslash, the line feed and the tab escaped
QUOTE == "\""
TAB == "\t"
\* a variant that escapes the quote alone
JsonEscapeQuote(c) == IF c = QUOTE THEN <<BS, QUOTE>> ELSE <<c>>

JsonEscape(c) ==
    CASE c = QUOTE -> <<BS, QUOTE>>
      [] c = BS -> <<BS, BS>>
      [] c = NL -> <<BS, "n">>
      [] c = TAB -> <<BS, "t">>
      [] OTHER -> <<c>>
JsonString(str) ==
    <<QUOTE>> \o Flatten([i \in 1..Len(str) |-> JsonEscape(str[i])]) \o <<QUOTE>>

\* the str a run of tokens between the quotes of a literal stands for
RECURSIVE JsonUnescape(_)
JsonUnescape(body) ==
    IF body = <<>> THEN <<>>
    ELSE IF Head(body) = BS /\ Len(body) >= 2
    THEN <<CASE body[2] = "n" -> NL
             [] body[2] = "t" -> TAB
             [] OTHER -> body[2]>> \o JsonUnescape(SubSeq(body, 3, Len(body)))
    ELSE <<Head(body)>> \o JsonUnescape(Tail(body))
JsonParseString(lit) == JsonUnescape(SubSeq(lit, 2, Len(lit) - 1))

JsonStrings(list) == [i \in 1..Len(list) |-> JsonString(list[i])]
JsonParseStrings(arr) == [i \in 1..Len(arr) |-> JsonParseString(arr[i])]

\* json.dump(params, file, ...) and json.load(file) of search parameters
json_dump(params) ==
    [tools_and_terms |-> JsonStrings(params.tools_and_terms),
     search_modes |-> [i \in 1..Len(params.search_modes) |->
                         [params.search_modes[i] EXCEPT !.term = JsonString(@)]],
     regions |-> JsonStrings(params.regions),
     categories |-> JsonStrings(params.categories),
     stages |-> JsonStrings(params.stages),
     platforms |-> JsonStrings(params.platforms)]
json_load(doc) ==
    [tools_and_terms |-> JsonParseStrings(doc.tools_and_terms),
     search_modes |-> [i \in 1..Len(doc.search_modes) |->
                         [doc.search_modes[i] EXCEPT !.term = JsonParseString(@)]],
     regions |-> JsonParseStrings(doc.regions),
     categories |-> JsonParseStrings(doc.categories),
     stages |-> JsonParseStrings(doc.stages),
     platforms |-> JsonParseStrings(doc.platforms)]

\* [exists |-> is there a file, value |-> the JSON document in it]
NoParamsFile == [exists |-> FALSE, value |-> json_dump(_default_search_params)]
ParamsFile(p) == [exists |-> TRUE, value |-> json_dump(p)]

\* save_search_params: the file it leaves
save_search_params(params) == ParamsFile(params)

\* load_search_params: the dict it returns and the file it leaves
load_search_params(file) ==
    IF ~file.exists
    THEN [params |-> _default_search_params,
          file |-> save_search_params(_default_search_params)]
    ELSE [params |-> json_load(file.value), file |-> file]

\* a variant that keeps the mode as it is stored
_normalize_mode_verbatim(mode) == mode

\* mapping.get(mode or "", "exact_in_text")
_normalize_mode(mode) ==
    CASE mode = "exact" -> "exact_in_text"
      [] mode = "nearby" -> "nearby_words"
      [] mode = "any_ending" -> "any_ending"
      [] mode = "exact_in_text" -> "exact_in_text"
      [] mode = "nearby_words" -> "nearby_words"
      [] OTHER -> "exact_in_text"

\* a search_keywords.json: [kind, items]; kind is "nofile", "list" (a JSON
\* array), "terms" or "keywords" (an object with that key holding an array)
\* or "other"; an item is [isdict, term, mode, hasDistance, distance], a
\* plain string being an item with isdict = FALSE
NoKeywordsFile == [kind |-> "nofile", items |-> <<>>]
PlainKeyword(item) ==
    [term |-> item.term, mode |-> "exact_in_text", hasDistance |-> FALSE, distance |-> 1]
DictKeyword(item) ==
    [term |-> GetDefault(item, "term", EmptyStr),
     mode |-> _normalize_mode(item.mode),
     hasDistance |-> TRUE,
     distance |-> IF item.hasDistance THEN item.distance ELSE 1]

_load_search_keywords(file) ==
    IF file.kind \in {"list", "keywords"}
    THEN [i \in 1..Len(file.items) |-> PlainKeyword(file.items[i])]
    ELSE IF file.kind = "terms"
    THEN [i \in 1..Len(file.items) |->
            IF file.items[i].isdict THEN DictKeyword(file.items[i])
            ELSE PlainKeyword(file.items[i])]
    ELSE <<>>

\* the first loop of _merge_keywords
RECURSIVE MergeTerms(_, _)
MergeTerms(tools_and_terms, keywords) ==
    IF keywords = <<>> THEN tools_and_terms
    ELSE LET term == Head(keywords).term
         IN MergeTerms(IF Truthy(term) /\ term \notin Range(tools_and_terms)
                       THEN Append(tools_and_terms, term) ELSE tools_and_terms,
                       Tail(keywords))

\* the second loop of _merge_keywords
MergeModes(search_modes, keywords) ==
    LET withMode == SelectSeq(keywords, LAMBDA item : item.mode # "")
    IN search_modes \o
       [i \in 1..Len(withMode) |->
           [term |-> withMode[i].term, mode |-> withMode[i].mode,
            distance |-> IF withMode[i].hasDistance THEN withMode[i].distance ELSE 1]]

\* a variant that merges into the dict it was passed
MergeArgumentInPlace(search_params, keywords) ==
    IF keywords = <<>> THEN search_params
    ELSE [search_params EXCEPT
            !.tools_and_terms = MergeTerms(search_params.tools_and_terms, keywords),
            !.search_modes = MergeModes(search_params.search_modes, keywords)]

\* the dict passed to _merge_keywords, after the call: the function works
\* on dict(search_params) and on list(...) copies of its two lists
MergeArgument(search_params, keywords) == search_params

\* _merge_keywords(search_params, inn), the keyword file already read
_merge_keywords(search_params, keywords) ==
    IF keywords = <<>> THEN search_params
    ELSE [search_params EXCEPT
            !.tools_and_terms = MergeTerms(search_params.tools_and_terms, keywords),
            !.search_modes = MergeModes(search_params.search_modes, keywords)]

\* a profile.json as filter_tenders reads it
NoProfile == [kind |-> "none", items |-> <<>>]

\* ---------------------------------------------------------------------
\* State
\* ---------------------------------------------------------------------
VARIABLES
    registry,      \* organizations/<inn>/lots/registry.json, per organization
    textFiles,     \* lots/<number>/extracted/text.txt: pairs <<number, text>>
    metaFiles,     \* lots/<number>/metadata.json: pairs <<number, files>>
    candFiles,     \* lots/<number>/extracted/product_candidates.json
    searchParams,  \* organizations/<inn>/search_parameters.json
    keywordsFile,  \* organizations/<inn>/search_keywords.json
    profileFile,   \* organizations/<inn>/profile.json
    activeInn,     \* launcher_state.json: "<nofile>" or its active_inn
    now,           \* the clock, in ticks
    pc,            \* where the running process_uploaded_files call is
    call,          \* the locals of the running call
    tempDir,       \* the TemporaryDirectory of the running call
    outcome,       \* how the last call that ended did, the record it returned
    calls,         \* the number of calls made so far
    repeated,      \* did the last call ingest what the call before it ingested?
    writers,       \* concurrent appends to one registry: their locals
    writes,        \* how many of them have written the registry file
    fcall,         \* a call of filter_tenders: its arguments and its result
    fncall         \* a call of one other function on its own: arguments, result

disk == <<registry, textFiles, metaFiles, candFiles>>
others == <<writers, writes, fcall, fncall>>
config == <<searchParams, keywordsFile, profileFile>>
vars == <<registry, textFiles, metaFiles, candFiles, searchParams, keywordsFile,
          profileFile, activeInn, now, pc, call, tempDir, outcome, calls,
          repeated, writers, writes, fcall, fncall>>

\* a file written under a directory named by the tender number
Put(files, number, content) ==
    {e \in files : e[1] # number} \cup {<<number, content>>}

NoCall == [arg |-> "", inn |-> "", files |-> <<>>, queue |-> <<>>, texts |-> <<>>,
           cands |-> <<>>, metas |-> <<>>]
NoTempDir == [exists |-> FALSE, files |-> {}]
NoRecord == [number |-> None, title |-> None, price |-> None, deadline |-> None,
             url |-> None, platform |-> None, status |-> None]
NoOutcome == [op |-> "none", status |-> "none", exc |-> "none", arg |-> "", inn |-> "",
              files |-> <<>>, tender |-> NoRecord,
              terms |-> {}, rules |-> <<>>, loaded |-> _default_search_params]

\* a variant with one directory for every organization
_org_dir_shared(inn) == "1234567890"

\* TenderMonitor._org_dir: the directory of the organization, under
\* organizations/, is named by its id
_org_dir(inn) == inn

\* _load_active_inn: the state file may be absent
_load_active_inn(state) == IF state = "<nofile>" THEN "" ELSE state

\* a variant that takes a default organization when none is known
ResolveInnDefault(inn, state) ==
    IF inn # "" THEN inn
    ELSE IF _load_active_inn(state) # "" THEN _load_active_inn(state)
    ELSE "1234567890"

\* inn = inn or cls._load_active_inn(); None is ""
ResolveInn(inn, state) == IF inn # "" THEN inn ELSE _load_active_inn(state)

\* a variant that removes the directory on a return only
ExitWorkspaceOnReturn(td, exc) == IF exc = "none" THEN NoTempDir ELSE td

\* leaving the `with tempfile.TemporaryDirectory()` block, by return or by
\* an exception exc: the directory is removed
ExitWorkspace(td, exc) == NoTempDir

\* a call of filter_tenders
FilterCall(tenders, search_params, current_time, profile) ==
    [tenders |-> tenders, search_params |-> search_params,
     current_time |-> current_time, profile |-> profile,
     done |-> FALSE, result |-> <<>>]
NoFilterCall == [FilterCall(<<>>, _default_search_params, NowAt(0), NoProfile)
                    EXCEPT !.done = TRUE]

\* no call of a function on its own
NoFnCall == [fn |-> "none", done |-> TRUE]

\* two callers that append to the registry of one organization
Writers == {1, 2}
ConcOrg == "1234567890"
Writer(kind, record, tenders) ==
    [kind |-> kind, record |-> record, tenders |-> tenders,
     pc |-> "start", existing |-> <<>>, readAt |-> 0]
NoWriters == [w \in Writers |-> [Writer("none", NoRecord, <<>>) EXCEPT !.pc = "done"]]

Init ==
    /\ registry = [o \in Orgs |-> <<>>]
    /\ textFiles = [o \in Orgs |-> {}]
    /\ metaFiles = [o \in Orgs |-> {}]
    /\ candFiles = [o \in Orgs |-> {}]
    /\ searchParams = [o \in Orgs |-> NoParamsFile]
    /\ keywordsFile = [o \in Orgs |-> NoKeywordsFile]
    /\ profileFile = [o \in Orgs |-> NoProfile]
    /\ activeInn = "<nofile>"
    /\ now = 0
    /\ pc = "idle"
    /\ call = NoCall
    /\ tempDir = NoTempDir
    /\ outcome = NoOutcome
    /\ calls = 0
    /\ repeated = FALSE
    /\ writers = NoWriters
    /\ writes = 0
    /\ fcall = NoFilterCall
    /\ fncall = NoFnCall

\* ---------------------------------------------------------------------
\* ManualTenderEntry.process_uploaded_files(file_paths, inn)
\* ---------------------------------------------------------------------
\* lines 41-49: the organization is resolved, the workspace is created
BeginIngest(file_paths, innArg) ==
    /\ pc = "idle"
    /\ calls < MaxCalls
    /\ calls' = calls + 1
    /\ LET inn == ResolveInn(innArg, activeInn)
       IN IF inn = ""
          THEN /\ outcome' = [NoOutcome EXCEPT !.op = "ingest", !.status = "raised",
                                               !.exc = "ValueError", !.arg = innArg,
                                               !.files = file_paths]
               /\ repeated' = FALSE
               /\ UNCHANGED <<pc, call, tempDir>>
          ELSE /\ pc' = "files"
               /\ call' = [NoCall EXCEPT !.arg = innArg, !.inn = inn, !.files = file_paths,
                                         !.queue = file_paths]
               /\ tempDir' = [exists |-> TRUE, files |-> {}]
               /\ UNCHANGED <<outcome, repeated>>
    /\ UNCHANGED <<disk, config, activeInn, now, others>>

\* lines 50-54: one pass of the loop over file_paths
ProcessFile ==
    /\ pc = "files"
    /\ call.queue # <<>>
    /\ LET extracted == _process_single_file(Head(call.queue), tempDir.files, 0)
       IN IF extracted.exc # "none"
          THEN /\ tempDir' = ExitWorkspace([tempDir EXCEPT !.files = extracted.td],
                                           extracted.exc)
               /\ pc' = "idle"
               /\ call' = NoCall
               /\ outcome' = [NoOutcome EXCEPT !.op = "ingest", !.status = "raised",
                                               !.exc = extracted.exc, !.arg = call.arg,
                                               !.inn = call.inn, !.files = call.files]
               /\ repeated' = FALSE
          ELSE /\ tempDir' = [tempDir EXCEPT !.files = extracted.td]
               /\ call' = [call EXCEPT
                             !.queue = Tail(@),
                             !.texts = Append(@, extracted.res.text),
                             !.cands = @ \o extracted.res.product_candidates,
                             !.metas = Append(@, extracted.res.metadata)]
               /\ UNCHANGED <<pc, outcome, repeated>>
    /\ UNCHANGED <<disk, config, activeInn, now, calls, others>>

\* lines 55-67: the workspace is left, the record and the artifacts are
\* written, the result is returned
FinishIngest ==
    /\ pc = "files"
    /\ call.queue = <<>>
    /\ LET inn == call.inn
           combined_text == JoinLines(call.texts)
           auto_fields == _extract_fields_from_text(combined_text)
           tender_data == _build_tender_data(auto_fields, now)
           tender_id == tender_data.tender_id_or_url
           registry_record == ManualRecord(tender_data, now)
       IN /\ tempDir' = ExitWorkspace(tempDir, "none")
          /\ metaFiles' = [metaFiles EXCEPT ![inn] = Put(@, tender_id, call.metas)]
          /\ textFiles' = [textFiles EXCEPT ![inn] = Put(@, tender_id, combined_text)]
          /\ registry' = [registry EXCEPT ![inn] = _save_registry_record(@, registry_record)]
          /\ candFiles' = [candFiles EXCEPT ![inn] = Put(@, tender_id, call.cands)]
          /\ outcome' = [NoOutcome EXCEPT !.op = "ingest", !.status = "returned",
                                          !.arg = call.arg, !.inn = inn,
                                          !.files = call.files,
                                          !.tender = registry_record]
          /\ repeated' = (/\ outcome.op = "ingest" /\ outcome.status = "returned"
                          /\ outcome.inn = inn /\ outcome.files = call.files)
    /\ pc' = "idle"
    /\ call' = NoCall
    /\ UNCHANGED <<config, activeInn, now, calls, others>>

\* ---------------------------------------------------------------------
\* TenderMonitor
\* ---------------------------------------------------------------------
\* find_new_tenders(inn); candidates is what _load_candidate_tenders reads
\* from incoming_tenders.json, a file the scraping collaborator writes
FindNewTenders(inn, candidates) ==
    /\ pc = "idle"
    /\ calls < MaxCalls
    /\ calls' = calls + 1
    /\ LET loaded == load_search_params(searchParams[_org_dir(inn)])
           profile == profileFile[_org_dir(inn)]
           keywords == _load_search_keywords(keywordsFile[_org_dir(inn)])
           search_params == _merge_keywords(loaded.params, keywords)
           filtered == filter_tenders(candidates, search_params, NowAt(now), profile)
           saved == _save_registry(registry[_org_dir(inn)], filtered)
       IN /\ searchParams' = [searchParams EXCEPT ![_org_dir(inn)] = loaded.file]
          /\ registry' = [registry EXCEPT ![_org_dir(inn)] = saved]
          /\ outcome' = [NoOutcome EXCEPT
                            !.op = "monitor", !.status = "returned", !.inn = inn,
                            !.terms = EffectiveTerms(search_params, profile),
                            !.rules = search_params.search_modes,
                            !.loaded = MergeArgument(loaded.params, keywords)]
          /\ repeated' = FALSE
    /\ UNCHANGED <<textFiles, metaFiles, candFiles, keywordsFile, profileFile,
                   activeInn, now, pc, call, tempDir, others>>

\* ---------------------------------------------------------------------
\* The collaborators and the clock
\* ---------------------------------------------------------------------
\* the clock advances
Tick ==
    /\ now < MaxTime
    /\ now' = now + 1
    /\ UNCHANGED <<disk, config, activeInn, pc, call, tempDir, outcome, calls,
                   repeated, others>>

\* launcher.py, _on_close: the launcher stores the selected organization
SetActiveInn(inn) ==
    /\ pc = "idle"
    /\ activeInn' = inn
    /\ UNCHANGED <<disk, config, now, pc, call, tempDir, outcome, calls, repeated,
                   others>>

\* ---------------------------------------------------------------------
\* Inputs
\* ---------------------------------------------------------------------
\* a candidate of incoming_tenders.json; the keys it lacks are Missing
BlankTender ==
    [number |-> Missing, title |-> Missing, price |-> Missing, deadline |-> Missing,
     url |-> Missing, platform |-> Missing, status |-> Missing, region |-> Missing,
     category |-> Missing, stage |-> Missing, description |-> Missing]
Date2000 == <<"2", "0", "0", "0", "-", "0", "1", "-", "0", "1">>
Date2099 == <<"2", "0", "9", "9", "-", "0", "1", "-", "0", "1">>
T1 == <<"T", "1">>
T2 == <<"T", "2">>
T3 == <<"T", "3">>
Msk == <<"7", "7">>
Spb == <<"7", "8">>
TenderA == [BlankTender EXCEPT !.number = T1, !.title = <<"a">>, !.region = Msk,
                               !.description = <<"p", "r", "i", "n", "t", "e", "r">>]
TenderB == [BlankTender EXCEPT !.number = T1, !.title = <<"b">>, !.region = Msk]
TenderOld == [BlankTender EXCEPT !.number = T2, !.deadline = Date2000, !.region = Msk]
TenderFar == [BlankTender EXCEPT !.number = T3, !.deadline = Date2099, !.region = Spb,
                                 !.status = <<"a", "r", "c", "h", "i", "v", "e">>]
TenderManual == [BlankTender EXCEPT !.number = Manual, !.region = Msk]

\* the contents the scraping collaborator gives incoming_tenders.json
IncomingLists ==
    {<<>>, <<TenderA, TenderB>>, <<TenderOld, TenderManual, TenderFar>>, <<TenderFar, TenderA>>}

\* the batches of files a user uploads
Batches ==
    {<<"a.txt">>, <<"esc.txt">>, <<"bad.zip">>}

\* ---------------------------------------------------------------------
\* The system: one user, one call at a time
\* ---------------------------------------------------------------------
Next ==
    \/ \E files \in Batches, inn \in Orgs \cup {""} : BeginIngest(files, inn)
    \/ ProcessFile
    \/ FinishIngest
    \/ \E inn \in Orgs, candidates \in IncomingLists : FindNewTenders(inn, candidates)
    \/ Tick
    \/ \E inn \in {"", "1234567890"} : SetActiveInn(inn)

Spec == Init /\ [][Next]_vars

\* ---------------------------------------------------------------------
\* Ingestion alone: every kind of file, one organization
\* ---------------------------------------------------------------------
Uploads ==
    {"a.txt", "esc.txt", "lines.txt", "ok.zip", "two.zip", "nest.zip", "bad.zip",
     "part.zip", "badxml.docx", "junk.docx", "good.docx", "badxml.xlsx", "x.exe",
     "Y.BAT", "r.rar", "p.png", "u.dat"}
AllBatches ==
    {<<f>> : f \in Uploads} \cup
    {<<"ok.zip", "two.zip">>, <<"a.txt", "bad.zip">>, <<"b.txt", "part.zip">>,
     <<"two.zip", "Y.BAT">>, <<"r.rar", "a.txt">>}

NextIngest ==
    \/ \E files \in AllBatches, inn \in {"1234567890", ""} :
          calls < MaxIngests /\ BeginIngest(files, inn)
    \/ ProcessFile
    \/ FinishIngest
    \/ Tick

SpecIngest == Init /\ [][NextIngest]_vars

\* ---------------------------------------------------------------------
\* Two appends to one registry at the same time
\* ---------------------------------------------------------------------
\* _save_registry_record, lines 307-310, and _save_registry, lines 208-211:
\* the writer loads the registry file into its local `existing`
ConcRead(w) ==
    /\ writers[w].pc = "start"
    /\ writers' = [writers EXCEPT ![w].pc = "read",
                                  ![w].existing = registry[ConcOrg],
                                  ![w].readAt = writes]
    /\ UNCHANGED <<disk, config, activeInn, now, pc, call, tempDir, outcome, calls,
                   repeated, writes, fcall, fncall>>

\* does the writer w open the registry file for writing?
ConcWrites(w) ==
    \/ w.kind = "monitor"
    \/ w.kind = "manual" /\ w.record.number \notin Numbers(w.existing)

\* a variant that appends to the file as it is at the time of the write
ConcContentFresh(w, file) ==
    IF w.kind = "manual" THEN _save_registry_record(file, w.record)
    ELSE _save_registry(file, w.tenders)

\* what the registry file holds after the write step of w, `file` being
\* what it held before: the list is built from the local `existing`
ConcContent(w, file) ==
    IF w.kind = "manual"
    THEN (IF ConcWrites(w) THEN Append(w.existing, w.record) ELSE file)
    ELSE _save_registry(w.existing, w.tenders)

\* _save_registry_record, lines 311-315, and _save_registry, lines 212-229
ConcWrite(w) ==
    /\ writers[w].pc = "read"
    /\ registry' = [registry EXCEPT ![ConcOrg] = ConcContent(writers[w], @)]
    /\ writes' = IF ConcWrites(writers[w]) THEN writes + 1 ELSE writes
    /\ writers' = [writers EXCEPT ![w].pc = "done"]
    /\ UNCHANGED <<textFiles, metaFiles, candFiles, config, activeInn, now, pc, call,
                   tempDir, outcome, calls, repeated, fcall, fncall>>

RecordOf(text) == ManualRecord(_build_tender_data(_extract_fields_from_text(text), 0), 0)
ConcWriters ==
    {Writer("manual", RecordOf(TextLabelled), <<>>),
     Writer("manual", RecordOf(TextEscapes), <<>>),
     Writer("monitor", NoRecord, <<TenderA>>),
     Writer("monitor", NoRecord, <<TenderFar, TenderManual>>),
     Writer("monitor", NoRecord, <<>>)}
ConcRegistries == {<<>>, <<MonitorRecord(TenderA)>>, <<MonitorRecord(TenderOld)>>}

InitConc ==
    /\ registry \in [Orgs -> ConcRegistries]
    /\ registry["7700000000"] = <<>>
    /\ textFiles = [o \in Orgs |-> {}]
    /\ metaFiles = [o \in Orgs |-> {}]
    /\ candFiles = [o \in Orgs |-> {}]
    /\ searchParams = [o \in Orgs |-> NoParamsFile]
    /\ keywordsFile = [o \in Orgs |-> NoKeywordsFile]
    /\ profileFile = [o \in Orgs |-> NoProfile]
    /\ activeInn = "<nofile>"
    /\ now = 0
    /\ pc = "idle"
    /\ call = NoCall
    /\ tempDir = NoTempDir
    /\ outcome = NoOutcome
    /\ calls = 0
    /\ repeated = FALSE
    /\ writers \in [Writers -> ConcWriters]
    /\ writes = 0
    /\ fcall = NoFilterCall
    /\ fncall = NoFnCall

NextConc == \E w \in Writers : ConcRead(w) \/ ConcWrite(w)

SpecConc == InitConc /\ [][NextConc]_vars

\* ---------------------------------------------------------------------
\* filter_tenders on its own
\* ---------------------------------------------------------------------
Date1999 == <<"1", "9", "9", "9", "-", "1", "2", "-", "3", "1">>
DateShort == <<"2", "0", "0", "0", "-", "1", "-", "1">>
DateFeb30 == <<"2", "0", "0", "0", "-", "0", "2", "-", "3", "0">>
Goods == <<"g", "o", "o", "d", "s">>
Auction == <<"a", "u", "c", "t", "i", "o", "n">>
Portal == <<"p", "o", "r", "t", "a", "l">>
LaserPrinter == <<"L", "a", "s", "e", "r", " ", "P", "r", "i", "n", "t", "e", "r">>

FilterDeadlines == {Missing, None, Date1999, Date2000, DateShort, DateFeb30, Date2099}
FilterRegions == {Missing, Msk, Spb}
FilterDescriptions == {Missing, None, EmptyStr, LaserPrinter}

\* eight candidates that differ in having a category, a stage, a platform
FilterList(region, deadline, description) ==
    [i \in 1..8 |->
        [BlankTender EXCEPT
            !.number = <<"N">> \o IntToStr(i),
            !.region = region, !.deadline = deadline, !.description = description,
            !.category = IF (i - 1) % 2 = 1 THEN Goods ELSE Missing,
            !.stage = IF ((i - 1) \div 2) % 2 = 1 THEN Auction ELSE Missing,
            !.platform = IF (i - 1) \div 4 = 1 THEN Portal ELSE Missing]]
\* a list that offers one candidate twice, around one of another region
FilterRepeats ==
    LET here == FilterList(Msk, Date2099, None)[1]
        there == FilterList(Spb, Date2099, LaserPrinter)[1]
    IN <<here, there, here>>
FilterLists ==
    {FilterList(r, d, t) : r \in FilterRegions, d \in FilterDeadlines,
                           t \in FilterDescriptions} \cup {FilterRepeats}

FilterRules ==
    {<<>>, <<[term |-> <<"l", "a", "s", "e", "r", "s">>, mode |-> "any_ending", distance |-> 1]>>}
FilterParams ==
    {[tools_and_terms |-> tt, search_modes |-> sm, regions |-> rs,
      categories |-> cs, stages |-> ss, platforms |-> ps] :
        tt \in {<<>>, <<<<"t", "o", "n", "e", "r">>>>},
        sm \in FilterRules,
        rs \in {<<>>, <<Msk>>, <<Spb, Msk>>},
        cs \in {<<>>, <<Goods>>},
        ss \in {<<>>, <<Auction>>},
        ps \in {<<>>, <<Portal>>}}
FilterProfiles ==
    {NoProfile, [kind |-> "list", items |-> <<<<"P", "R", "I", "N", "T">>>>]}

InitFilter ==
    /\ registry = [o \in Orgs |-> <<>>]
    /\ textFiles = [o \in Orgs |-> {}]
    /\ metaFiles = [o \in Orgs |-> {}]
    /\ candFiles = [o \in Orgs |-> {}]
    /\ searchParams = [o \in Orgs |-> NoParamsFile]
    /\ keywordsFile = [o \in Orgs |-> NoKeywordsFile]
    /\ profileFile = [o \in Orgs |-> NoProfile]
    /\ activeInn = "<nofile>"
    /\ now = 0
    /\ pc = "idle"
    /\ call = NoCall
    /\ tempDir = NoTempDir
    /\ outcome = NoOutcome
    /\ calls = 0
    /\ repeated = FALSE
    /\ writers = NoWriters
    /\ writes = 0
    /\ fncall = NoFnCall
    /\ \E tenders \in FilterLists, search_params \in FilterParams,
          t \in 0..MaxTime, profile \in FilterProfiles :
          fcall = FilterCall(tenders, search_params, NowAt(t), profile)

\* filter_tenders(tenders, search_params, current_time, profile) returns
ApplyFilter ==
    /\ ~fcall.done
    /\ fcall' = [fcall EXCEPT
                   !.done = TRUE,
                   !.result = filter_tenders(fcall.tenders, fcall.search_params,
                                             fcall.current_time, fcall.profile)]
    /\ UNCHANGED <<disk, config, activeInn, now, pc, call, tempDir, outcome, calls,
                   repeated, writers, writes, fncall>>

NextFilter == ApplyFilter

SpecFilter == InitFilter /\ [][NextFilter]_vars

\* ---------------------------------------------------------------------
\* One keyword rule on its own
\* ---------------------------------------------------------------------
MaxDistance == 2

\* nothing runs and nothing is stored
AtRest ==
    /\ registry = [o \in Orgs |-> <<>>]
    /\ textFiles = [o \in Orgs |-> {}]
    /\ metaFiles = [o \in Orgs |-> {}]
    /\ candFiles = [o \in Orgs |-> {}]
    /\ searchParams = [o \in Orgs |-> NoParamsFile]
    /\ keywordsFile = [o \in Orgs |-> NoKeywordsFile]
    /\ profileFile = [o \in Orgs |-> NoProfile]
    /\ activeInn = "<nofile>"
    /\ now = 0
    /\ pc = "idle"
    /\ call = NoCall
    /\ tempDir = NoTempDir
    /\ outcome = NoOutcome
    /\ calls = 0
    /\ repeated = FALSE
    /\ writers = NoWriters
    /\ writes = 0
    /\ fcall = NoFilterCall

FastWide ==
    <<"f", "a", "s", "t", " ", "w", "i", "d", "e", " ", "f", "o", "r", "m", "a", "t", " ",
      "p", "r", "i", "n", "t", "e", "r", " ", "a", "v", "a", "i", "l", "a", "b", "l", "e",
      " ", "n", "o", "w">>
WidePrinter == <<"w", "i", "d", "e", " ", "p", "r", "i", "n", "t", "e", "r">>
PrinterWIDE == <<"P", "r", "i", "n", "t", "e", "r", " ", " ", "W", "I", "D", "E">>
Printery == <<"p", "r", "i", "n", "t", "e", "r", "y">>
NovyjPrinter == <<"N", "o", "v", "y", "j", " ", "P", "R", "I", "N", "T", "E", "R", ".">>
WideComma == <<"w", "i", "d", "e", ",", "p", "r", "i", "n", "t", "e", "r">>

RuleTexts == {EmptyStr, FastWide, WidePrinter, NovyjPrinter, WideComma,
              <<"p", "r", "i", "n", "t">>, <<"n", "o", "w", " ", "f", "a", "s", "t">>}
RuleTerms == {EmptyStr, <<" ">>, WidePrinter, PrinterWIDE, Printery,
              <<"P", "R", "I", "N", "T", "E", "R", "S">>, <<"n", "o", "w">>,
              <<"f", "a", "s", "t", " ", "n", "o", "w">>, <<"x">>}
RuleModes == {"exact_in_text", "nearby_words", "any_ending"}

InitMatch ==
    /\ AtRest
    /\ \E text \in RuleTexts, term \in RuleTerms, mode \in RuleModes,
          distance \in 0..MaxDistance :
          fncall = [fn |-> "_matches_terms", text |-> text,
                    rule |-> [term |-> term, mode |-> mode, distance |-> distance],
                    done |-> FALSE, result |-> FALSE]

\* _matches_terms(text, set(), [rule]) returns
ApplyRule ==
    /\ fncall.fn = "_matches_terms" /\ ~fncall.done
    /\ fncall' = [fncall EXCEPT !.done = TRUE,
                                !.result = _matches_terms(fncall.text, {}, <<fncall.rule>>)]
    /\ UNCHANGED <<disk, config, activeInn, now, pc, call, tempDir, outcome, calls,
                   repeated, writers, writes, fcall>>

NextMatch == ApplyRule

SpecMatch == InitMatch /\ [][NextMatch]_vars

\* ---------------------------------------------------------------------
\* Monitoring runs under stored parameters, keywords and profiles
\* ---------------------------------------------------------------------
Toner == <<"t", "o", "n", "e", "r">>
\* an item of a search_keywords.json
StringItem(term) ==
    [isdict |-> FALSE, term |-> term, mode |-> "", hasDistance |-> FALSE, distance |-> 1]
DictItem(term, mode, hasDistance, distance) ==
    [isdict |-> TRUE, term |-> term, mode |-> mode, hasDistance |-> hasDistance,
     distance |-> distance]

StoredParams ==
    {NoParamsFile,
     ParamsFile(_default_search_params),
     ParamsFile([_default_search_params EXCEPT
                    !.tools_and_terms = <<Toner>>,
                    !.search_modes = <<[term |-> Printery, mode |-> "any_ending",
                                        distance |-> 1]>>,
                    !.regions = <<Msk>>])}
StoredKeywords ==
    {NoKeywordsFile,
     [kind |-> "list", items |-> <<StringItem(Toner), StringItem(<<"i", "n", "k">>)>>],
     [kind |-> "terms",
      items |-> <<DictItem(WidePrinter, "nearby", TRUE, 0), StringItem(Toner),
                  DictItem(Missing, "legacy", FALSE, 1)>>],
     [kind |-> "terms",
      items |-> <<DictItem(Toner, "exact", FALSE, 1), DictItem(Printery, "any_ending", TRUE, 1),
                  DictItem(WidePrinter, "nearby_words", TRUE, 2),
                  DictItem(Toner, "", FALSE, 1), DictItem(Toner, "EXACT", FALSE, 1)>>],
     [kind |-> "keywords", items |-> <<StringItem(EmptyStr)>>],
     [kind |-> "other", items |-> <<>>]}
StoredProfiles ==
    {NoProfile,
     [kind |-> "list", items |-> <<<<"2", "6", ".", "2", "0">>, Toner>>],
     [kind |-> "scalar", items |-> <<<<"2", "6">>>>]}

\* what the scraping collaborator offers under such parameters
WidePrinters == WidePrinter \o <<"s">>
TenderWide == [BlankTender EXCEPT !.number = T2, !.region = Msk,
                                  !.description = WidePrinters]
MonitorLists == {<<>>, <<TenderA, TenderB>>, <<TenderWide, TenderFar>>,
                 <<TenderOld, TenderFar, TenderWide>>}

InitMonitor ==
    /\ registry = [o \in Orgs |-> <<>>]
    /\ textFiles = [o \in Orgs |-> {}]
    /\ metaFiles = [o \in Orgs |-> {}]
    /\ candFiles = [o \in Orgs |-> {}]
    /\ \E p \in StoredParams : searchParams = [o \in Orgs |-> p]
    /\ \E k \in StoredKeywords : keywordsFile = [o \in Orgs |-> k]
    /\ \E f \in StoredProfiles : profileFile = [o \in Orgs |-> f]
    /\ activeInn = "<nofile>"
    /\ now = 0
    /\ pc = "idle"
    /\ call = NoCall
    /\ tempDir = NoTempDir
    /\ outcome = NoOutcome
    /\ calls = 0
    /\ repeated = FALSE
    /\ writers = NoWriters
    /\ writes = 0
    /\ fcall = NoFilterCall
    /\ fncall = NoFnCall

NextMonitor ==
    \/ \E inn \in Orgs, candidates \in MonitorLists : FindNewTenders(inn, candidates)
    \/ Tick

SpecMonitor == InitMonitor /\ [][NextMonitor]_vars

\* ---------------------------------------------------------------------
\* The parameter store on its own
\* ---------------------------------------------------------------------
MaxParamCalls == 4

\* a term with a quote, a backslash before an n, a line feed and a tab
Awkward == <<"a", QUOTE, "b", BS, "n", NL, TAB, BS>>
SavedParams ==
    {_default_search_params,
     [_default_search_params EXCEPT !.tools_and_terms = <<Toner, Awkward>>,
                                    !.regions = <<Msk, Spb>>],
     [_default_search_params EXCEPT
        !.search_modes = <<[term |-> Awkward, mode |-> "nearby_words", distance |-> 2]>>,
        !.platforms = <<<<BS, BS>>>>]}

NoParamsCall == [fn |-> "none", inn |-> "", params |-> _default_search_params,
                 created |-> FALSE, done |-> TRUE]

InitParams ==
    /\ AtRest
    /\ fncall = NoParamsCall

\* load_search_params(inn) returns fncall'.params
LoadParams(inn) ==
    /\ calls < MaxParamCalls
    /\ calls' = calls + 1
    /\ LET loaded == load_search_params(searchParams[inn])
       IN /\ searchParams' = [searchParams EXCEPT ![inn] = loaded.file]
          /\ fncall' = [fn |-> "load_search_params", inn |-> inn,
                        params |-> loaded.params,
                        created |-> ~searchParams[inn].exists, done |-> TRUE]
    /\ UNCHANGED <<disk, keywordsFile, profileFile, activeInn, now, pc, call, tempDir,
                   outcome, repeated, writers, writes, fcall>>

\* save_search_params(inn, params)
SaveParams(inn, params) ==
    /\ calls < MaxParamCalls
    /\ calls' = calls + 1
    /\ searchParams' = [searchParams EXCEPT ![inn] = save_search_params(params)]
    /\ fncall' = [fn |-> "save_search_params", inn |-> inn, params |-> params,
                  created |-> FALSE, done |-> TRUE]
    /\ UNCHANGED <<disk, keywordsFile, profileFile, activeInn, now, pc, call, tempDir,
                   outcome, repeated, writers, writes, fcall>>

NextParams ==
    \/ \E inn \in Orgs : LoadParams(inn)
    \/ \E inn \in Orgs, params \in SavedParams : SaveParams(inn, params)

SpecParams == InitParams /\ [][NextParams]_vars

\* ---------------------------------------------------------------------
\* _evaluate_status on its own
\* ---------------------------------------------------------------------
Midnight2000 == <<"0", "1", ".", "0", "1", ".", "2", "0", "0", "0", " ", "0", "0", ":", "0", "0">>
Minute2000 == <<"0", "1", ".", "0", "1", ".", "2", "0", "0", "0", " ", "0", "0", ":", "0", "1">>
Short2000 == <<"1", ".", "1", ".", "2", "0", "0", "0", " ", "0", ":", "0">>
Eve1999 == <<"3", "1", ".", "1", "2", ".", "1", "9", "9", "9", " ", "2", "3", ":", "5", "9">>
Morning2099 == <<"0", "1", ".", "0", "1", ".", "2", "0", "9", "9", " ", "1", "0", ":", "0", "0">>
Feb30 == <<"3", "0", ".", "0", "2", ".", "2", "0", "0", "0", " ", "1", "0", ":", "0", "0">>
Hour24 == <<"0", "1", ".", "0", "1", ".", "1", "9", "9", "9", " ", "2", "4", ":", "0", "0">>
Trailing == Eve1999 \o <<":", "0", "0">>
StatusDeadlines ==
    {EmptyStr, <<"s", "o", "o", "n">>, Date2000, Midnight2000, Minute2000, Short2000,
     Eve1999, Morning2099, Feb30, Hour24, Trailing}
MaxStatusTime == 4

InitStatus ==
    /\ AtRest
    /\ \E deadline \in StatusDeadlines, t \in 0..MaxStatusTime :
          fncall = [fn |-> "_evaluate_status", deadline |-> deadline, t |-> t,
                    done |-> FALSE, result |-> EmptyStr]

\* _evaluate_status(deadline) returns, the clock showing fncall.t
ApplyStatus ==
    /\ fncall.fn = "_evaluate_status" /\ ~fncall.done
    /\ fncall' = [fncall EXCEPT !.done = TRUE,
                                !.result = _evaluate_status(fncall.deadline, fncall.t)]
    /\ UNCHANGED <<disk, config, activeInn, now, pc, call, tempDir, outcome, calls,
                   repeated, writers, writes, fcall>>

NextStatus == ApplyStatus

SpecStatus == InitStatus /\ [][NextStatus]_vars

\* ---------------------------------------------------------------------
\* Properties
\* ---------------------------------------------------------------------
IsPrefix(s, t) == Len(s) <= Len(t) /\ SubSeq(t, 1, Len(s)) = s
CountNumber(records, n) == Cardinality({i \in 1..Len(records) : records[i].number = n})

\* the step that ends an ingestion with the save of the record
SaveStep == pc = "files" /\ call.queue = <<>> /\ pc' = "idle"

\* C1: after any sequence of manual ingestions and monitoring runs, no two
\* records of an organization's registry have the same number.
C1_UniqueNumbers ==
    \A o \in Orgs : \A i, j \in 1..Len(registry[o]) :
        i # j => registry[o][i].number # registry[o][j].number

\* C2: the registry is append-only: in every step the registry of every
\* organization before the step is a prefix of the one after it; an
\* ingestion that reaches the save returns, and when the number of its record
\* is already stored the registry stays as it was.
C2_AppendOnly ==
    [][/\ \A o \in Orgs : IsPrefix(registry[o], registry'[o])
       /\ SaveStep =>
            /\ outcome'.status = "returned"
            /\ outcome'.tender.number \in Numbers(registry[call.inn])
                 => registry' = registry]_vars

\* an ingestion has returned a record whose number was stored before with
\* other fields
C2_Witness ==
    /\ outcome.op = "ingest" /\ outcome.status = "returned"
    /\ \E i \in 1..Len(registry[outcome.inn]) :
          /\ registry[outcome.inn][i].number = outcome.tender.number
          /\ registry[outcome.inn][i] # outcome.tender

\* C3: an ingestion of the batch that the call before it ingested for the
\* same organization leaves the registry as the first ingestion left it, with
\* exactly one record of the number derived from the batch.
C3_SameFileTwice ==
    [][(/\ SaveStep
        /\ outcome.op = "ingest" /\ outcome.status = "returned"
        /\ outcome.inn = call.inn /\ outcome.files = call.files)
       => /\ registry'[call.inn] = registry[call.inn]
          /\ CountNumber(registry'[call.inn], outcome'.tender.number) = 1]_vars

\* the second ingestion of a batch has returned
C3_Witness ==
    /\ repeated
    /\ outcome.op = "ingest" /\ outcome.status = "returned"
    /\ CountNumber(registry[outcome.inn], outcome.tender.number) = 1

\* the numbers a writer is to append
NumsOf(w) ==
    IF w.kind = "manual" THEN {w.record.number}
    ELSE {Get(w.tenders[i], "number") : i \in 1..Len(w.tenders)}

\* both writers have read the file before either wrote it, each to append
\* numbers that are new and not the other's
RacingAppends ==
    /\ \A w \in Writers : writers[w].pc = "done" /\ writers[w].readAt = 0
    /\ \A w \in Writers :
          NumsOf(writers[w]) # {} /\ NumsOf(writers[w]) \cap Numbers(writers[w].existing) = {}
    /\ NumsOf(writers[1]) \cap NumsOf(writers[2]) = {}

\* C4: the append is a read-modify-write in two steps, and it loses an
\* update: when two appends of distinct new numbers to one registry have both
\* read the file before either wrote it, the records of one of them are
\* missing from the registry once both are done.
C4_LostUpdate ==
    RacingAppends =>
        \E w \in Writers : ~(NumsOf(writers[w]) \subseteq Numbers(registry[ConcOrg]))

\* both appends are done after such an interleaving and a record is lost
C4_Witness ==
    /\ RacingAppends
    /\ \E w \in Writers : NumsOf(writers[w]) \cap Numbers(registry[ConcOrg]) = {}
    /\ \E w \in Writers : NumsOf(writers[w]) \subseteq Numbers(registry[ConcOrg])

\* a call of process_uploaded_files with an organization has ended
IngestEnded == pc = "idle" /\ outcome.op = "ingest" /\ outcome.inn # ""

\* C5: the ingestion of a zip archive that holds another zip archive
\* terminates and returns its aggregate result.
C5_NestedArchiveReturns ==
    IngestEnded /\ outcome.files = <<"nest.zip">> => outcome.status = "returned"

\* C6: no anomaly of format or content aborts an ingestion: a call with an
\* organization supplied returns, whatever its files (a corrupt zip archive,
\* a docx or xlsx container with malformed XML); archives within archives
\* are the matter of C5.
C6_AnomaliesDegrade ==
    IngestEnded /\ "nest.zip" \notin Range(outcome.files) => outcome.status = "returned"

\* C7: once a call of process_uploaded_files has ended, by a return or by
\* an exception, its temporary workspace no longer exists; while the files
\* are processed it does.
C7_WorkspaceRemoved ==
    /\ pc = "idle" => ~tempDir.exists /\ tempDir.files = {}
    /\ pc = "files" => tempDir.exists

\* a call that failed part-way through unpacking an archive has ended
C7_Witness ==
    /\ IngestEnded /\ outcome.status = "raised"
    /\ outcome.files = <<"b.txt", "part.zip">>
    /\ ~tempDir.exists

\* a call of process_uploaded_files without an organization, while no active
\* organization is stored, begins in this step
BeginsWithoutOrg ==
    /\ pc = "idle" /\ calls' = calls + 1
    /\ _load_active_inn(activeInn) = ""
    /\ \/ pc' = "files" /\ call'.arg = ""
       \/ pc' = "idle" /\ outcome'.op = "ingest" /\ outcome'.arg = ""

\* C8: a call of process_uploaded_files with no organization id, while no
\* active organization is stored, fails with ValueError before any file is
\* processed, and the registry, the text, the candidates and the metadata of
\* every organization are as they were.
C8_NoOrganizationFails ==
    [][BeginsWithoutOrg =>
          /\ outcome'.status = "raised" /\ outcome'.exc = "ValueError"
          /\ pc' = "idle" /\ ~tempDir'.exists
          /\ disk' = disk]_vars

\* such a call has failed while an organization has a registry
C8_Witness ==
    /\ outcome.op = "ingest" /\ outcome.arg = "" /\ outcome.exc = "ValueError"
    /\ \E o \in Orgs : registry[o] # <<>>

\* is the allow-list empty, or does it hold the candidate's value of the field?
Allowed(tender, field, allowList) ==
    allowList = <<>> \/ \E i \in 1..Len(allowList) : allowList[i] = Get(tender, field)

\* TextMatches for the description of a candidate under the parameters and
\* the profile of the call
TextMatches(tender, c) ==
    _matches_terms(IF Truthy(Get(tender, "description")) THEN tender.description
                   ELSE EmptyStr,
                   Range(c.search_params.tools_and_terms)
                       \cup Range(_profile_okved_terms(c.profile)),
                   c.search_params.search_modes)

\* the allow-list of a field in the parameters of the call
AllowList(c, field) ==
    CASE field = "region" -> c.search_params.regions
      [] field = "category" -> c.search_params.categories
      [] field = "stage" -> c.search_params.stages
      [] field = "platform" -> c.search_params.platforms

Accepted(tender, c) ==
    /\ ~_is_expired(tender, c.current_time)
    /\ \A field \in {"region", "category", "stage", "platform"} :
          Allowed(tender, field, AllowList(c, field))
    /\ TextMatches(tender, c)

\* C9: filter_tenders returns, in their order, the candidates that are not
\* expired, whose region, category, stage and platform are each in the
\* allow-list of the field unless that list is empty, and whose description
\* satisfies TextMatches; a candidate without a field is not returned when
\* the allow-list of the field is not empty.
C9_FilterAccepts ==
    fcall.done =>
        /\ fcall.result = SelectSeq(fcall.tenders, LAMBDA tender : Accepted(tender, fcall))
        /\ \A i \in 1..Len(fcall.tenders) :
             \A field \in {"region", "category", "stage", "platform"} :
                (fcall.tenders[i][field] = Missing /\ AllowList(fcall, field) # <<>>)
                    => fcall.tenders[i] \notin Range(fcall.result)

\* a call with three allow-lists and a term that returned some candidates
\* and rejected others, one of them for a field it lacks
C9_Witness ==
    /\ fcall.done /\ fcall.tenders # <<>>
    /\ fcall.result # <<>> /\ Len(fcall.result) < Len(fcall.tenders)
    /\ fcall.search_params.regions # <<>> /\ fcall.search_params.stages # <<>>
    /\ fcall.search_params.tools_and_terms # <<>>
    /\ \E i \in 1..Len(fcall.tenders) :
          /\ fcall.tenders[i].stage = Missing
          /\ fcall.tenders[i] \notin Range(fcall.result)

\* the deadline of the candidate is a date at or before the time of the call
DeadlinePassed(tender, c) ==
    /\ tender.deadline \notin {Missing, None}
    /\ StrptimeYMD(tender.deadline).ok
    /\ DtLE(StrptimeYMD(tender.deadline).dt, c.current_time)

\* C10: a candidate whose deadline is a %Y-%m-%d date at or before the
\* current time is not in what filter_tenders returns, whatever the terms,
\* the rules, the allow-lists and the profile.
C10_ExpiredRejected ==
    fcall.done =>
        \A i \in 1..Len(fcall.tenders) :
            DeadlinePassed(fcall.tenders[i], fcall) =>
                fcall.tenders[i] \notin Range(fcall.result)

\* a call without terms, rules or allow-lists, at the very time of the
\* deadline 2000-01-01, returned nothing
C10_Witness ==
    /\ fcall.done /\ fcall.tenders # <<>>
    /\ fcall.search_params = _default_search_params /\ fcall.profile = NoProfile
    /\ fcall.current_time = NowAt(0)
    /\ \A i \in 1..Len(fcall.tenders) : fcall.tenders[i].deadline = Date2000
    /\ fcall.result = <<>>

\* the call has no free term, no classifier term and no rule
NoTextCriteria(c) ==
    /\ c.search_params.tools_and_terms = <<>>
    /\ _profile_okved_terms(c.profile) = <<>>
    /\ c.search_params.search_modes = <<>>

\* C11: when the free terms, the classifier terms of the profile and the
\* rules are all empty, filter_tenders returns every candidate that is not
\* expired and satisfies the allow-lists, whatever its description.
C11_DefaultAccept ==
    (fcall.done /\ NoTextCriteria(fcall)) =>
        \A i \in 1..Len(fcall.tenders) :
            (/\ ~_is_expired(fcall.tenders[i], fcall.current_time)
             /\ \A field \in {"region", "category", "stage", "platform"} :
                   Allowed(fcall.tenders[i], field, AllowList(fcall, field)))
                => fcall.tenders[i] \in Range(fcall.result)

\* such a call returned candidates that have no description, under an
\* allow-list that rejected others
C11_Witness ==
    /\ fcall.done /\ NoTextCriteria(fcall)
    /\ fcall.search_params.categories # <<>>
    /\ fcall.result # <<>> /\ Len(fcall.result) < Len(fcall.tenders)
    /\ \A i \in 1..Len(fcall.result) : fcall.result[i].description = Missing

\* a rule of the mode has been applied to a text
RuleApplied(mode) ==
    fncall.fn = "_matches_terms" /\ fncall.done /\ fncall.rule.mode = mode

\* the words of a description (runs of letters, digits and "_") and of a
\* term (separated by white space), in lower case
DescriptionWords(text) == FindWords(Lower(text))
TermWords(term) == Split(Lower(term))

\* some window of distance + wordCount(term) consecutive words of the
\* description, begun at one of its words, holds every word of the term
SomeWindowHolds(text, term, distance) ==
    LET words == DescriptionWords(text)
        target == TermWords(term)
    IN \E i \in 1..Len(words) :
          \A k \in 1..Len(target) :
             \E j \in i..(i + distance + Len(target) - 1) :
                j <= Len(words) /\ words[j] = target[k]

\* C12 as stated: a nearby_words rule matches a description if and only if
\* some window of distance + wordCount(term) consecutive words of the
\* description holds every word of the term, whatever the case of the letters.
C12_NearbyIffWindow ==
    RuleApplied("nearby_words") =>
        (fncall.result <=> SomeWindowHolds(fncall.text, fncall.rule.term,
                                           fncall.rule.distance))

\* C12, amended: a nearby_words rule matches a description if and only if
\* its term has a word and some window of distance + wordCount(term)
\* consecutive words of the description holds every word of the term,
\* whatever the case of the letters; "wide printer" matches "fast wide
\* format printer available now" at the distance 2 and not at the distance 0.
C12_NearbyWords ==
    RuleApplied("nearby_words") =>
        /\ fncall.result <=>
              (/\ TermWords(fncall.rule.term) # <<>>
               /\ SomeWindowHolds(fncall.text, fncall.rule.term, fncall.rule.distance))
        /\ (fncall.text = FastWide /\ fncall.rule.term = WidePrinter) =>
              /\ fncall.rule.distance = 2 => fncall.result
              /\ fncall.rule.distance = 0 => ~fncall.result

\* "wide printer" has matched "fast wide format printer available now" at
\* the distance 2
C12_Witness ==
    /\ RuleApplied("nearby_words") /\ fncall.result
    /\ fncall.text = FastWide /\ fncall.rule.term = WidePrinter
    /\ fncall.rule.distance = 2

\* the term without its last character, in lower case, is a substring of
\* the description in lower case
StemIsSubstring(text, term) ==
    Contains(Lower(SubSeq(term, 1, Len(term) - 1)), Lower(text))

\* C13 as stated: an any_ending rule matches a description if and only if
\* its term without its last character is a substring of the description,
\* whatever the case of the letters.
C13_AnyEndingIffStem ==
    RuleApplied("any_ending") =>
        (fncall.result <=> StemIsSubstring(fncall.text, fncall.rule.term))

\* C13, amended: an any_ending rule matches a description if and only if
\* its term is not empty and the term without its last character is a
\* substring of the description, whatever the case of the letters; the term
\* "printery" matches a description that holds "printer".
C13_AnyEnding ==
    RuleApplied("any_ending") =>
        /\ fncall.result <=>
              (/\ fncall.rule.term # EmptyStr
               /\ StemIsSubstring(fncall.text, fncall.rule.term))
        /\ (fncall.text = NovyjPrinter /\ fncall.rule.term = Printery) => fncall.result

\* "printery" has matched "Novyj PRINTER."
C13_Witness ==
    /\ RuleApplied("any_ending") /\ fncall.result
    /\ fncall.text = NovyjPrinter /\ fncall.rule.term = Printery

\* the rules stored in a keyword file, in their stored order
StoredRules(file) ==
    LET keywords == _load_search_keywords(file)
    IN [i \in 1..Len(keywords) |->
           [term |-> keywords[i].term, mode |-> keywords[i].mode,
            distance |-> keywords[i].distance]]

\* C14: the parameters a run of find_new_tenders matches with have as free
\* terms exactly the persisted free terms and the classifier terms of the
\* profile, and as rules the persisted rules followed by the stored keyword
\* rules in their order: a stored keyword rule adds a rule and nothing else.
C14_EffectiveParameters ==
    outcome.op = "monitor" =>
        LET persisted == json_load(searchParams[outcome.inn].value)
        IN /\ outcome.terms = Range(persisted.tools_and_terms)
                                 \cup Range(_profile_okved_terms(profileFile[outcome.inn]))
           /\ outcome.rules = persisted.search_modes \o StoredRules(keywordsFile[outcome.inn])

\* a run of find_new_tenders for an organization that has a parameter file
\* is made in this step
MonitorsStored ==
    /\ calls' = calls + 1 /\ outcome'.op = "monitor"
    /\ searchParams[outcome'.inn].exists

\* C15: a run of find_new_tenders for an organization whose parameter file
\* exists leaves that file, the keyword file and the profile as they were,
\* and the parameters it loaded are after the merge what the file holds.
C15_MergeNotWrittenBack ==
    [][MonitorsStored =>
          /\ config' = config
          /\ outcome'.loaded = json_load(searchParams[outcome'.inn].value)]_vars

\* such a run has merged stored keywords and classifier terms into
\* persisted parameters that are not the defaults
C15_Witness ==
    /\ outcome.op = "monitor"
    /\ searchParams[outcome.inn].exists
    /\ outcome.loaded # _default_search_params
    /\ outcome.loaded = json_load(searchParams[outcome.inn].value)
    /\ outcome.terms # Range(outcome.loaded.tools_and_terms)
    /\ Len(outcome.rules) > Len(outcome.loaded.search_modes)
    /\ profileFile[outcome.inn] # NoProfile

\* load_search_params returns in this step
Loads == calls' = calls + 1 /\ fncall'.fn = "load_search_params"

\* C16: load_search_params for an organization without a parameter file
\* returns the all-empty defaults and leaves a file that holds them; a load
\* that follows a load for the same organization returns the same value; a
\* load that follows save_search_params(p) for the same organization
\* returns p.
C16_LoadSave ==
    [][Loads =>
          /\ ~searchParams[fncall'.inn].exists =>
                /\ fncall'.params = _default_search_params
                /\ searchParams'[fncall'.inn].exists
                /\ json_load(searchParams'[fncall'.inn].value) = _default_search_params
          /\ fncall.inn = fncall'.inn /\ fncall.fn \in {"load_search_params",
                                                         "save_search_params"} =>
                fncall'.params = fncall.params]_vars

\* a load has created the defaults, and a load has returned saved parameters
\* whose strings need escapes
C16_Witness ==
    /\ fncall.fn = "load_search_params"
    /\ fncall.params.search_modes # <<>>
    /\ fncall.params.search_modes[1].term = Awkward
    /\ \E o \in Orgs : o # fncall.inn /\ searchParams[o] = ParamsFile(_default_search_params)

\* the extension of the file, in lower case, is a blocked one
BlockedName(f) == Lower(Disk[f].ext) \in BLOCKED_EXTENSIONS

\* the result for a blocked file: marked, without text or candidates, the
\* workspace td as it was
BlockedResult(r, f, td) ==
    /\ r.exc = "none"
    /\ r.res.metadata.blocked = TRUE /\ r.res.metadata.file = f
    /\ r.res.text = EmptyStr /\ r.res.product_candidates = <<>>
    /\ r.td = td

\* the files of the running call that have been processed
Processed == Len(call.files) - Len(call.queue)

\* C17: a file whose extension in lower case is .exe, .bat or .vbs yields a
\* result with blocked = true, an empty text and no candidate, and nothing
\* is extracted: so for every file passed directly (what the call has
\* collected for it says so) and for every entry an archive has unpacked
\* into the workspace.
C17_BlockedFiles ==
    pc = "files" =>
        /\ \A k \in 1..Processed :
              BlockedName(call.files[k]) =>
                 /\ call.metas[k].blocked = TRUE
                 /\ call.texts[k] = EmptyStr
        /\ \A f \in Range(call.files) \cup tempDir.files :
              BlockedName(f) =>
                 BlockedResult(_process_single_file(f, tempDir.files, 1), f, tempDir.files)

\* an archive has unpacked x.exe and Y.BAT has been passed directly
C17_Witness ==
    /\ pc = "files" /\ call.files = <<"two.zip", "Y.BAT">> /\ call.queue = <<>>
    /\ "tmp/x.exe" \in tempDir.files
    /\ call.metas[2].blocked = TRUE
    /\ call.cands = <<>>

\* the file is an archive that cannot be decoded: a .rar, no rarfile module
Undecodable(f) == Lower(Disk[f].ext) = <<".", "r", "a", "r">> /\ ~rarfile

\* C18: a .rar archive, no decoder being installed, yields an empty text, no
\* candidate and metadata with an error field; no exception ends the call
\* and the files after it in the batch are processed.
C18_UndecodableArchive ==
    /\ pc = "files" =>
          \A k \in 1..Processed :
             Undecodable(call.files[k]) =>
                /\ call.texts[k] = EmptyStr
                /\ call.metas[k].error # Missing
                /\ call.metas[k].blocked = FALSE
                /\ _process_single_file(call.files[k], tempDir.files, 0)
                      .res.product_candidates = <<>>
    /\ (IngestEnded /\ outcome.files \in {<<"r.rar">>, <<"r.rar", "a.txt">>}) =>
          outcome.status = "returned"

\* the call has gone past r.rar and has read the text of a.txt
C18_Witness ==
    /\ pc = "files" /\ call.files = <<"r.rar", "a.txt">> /\ call.queue = <<>>
    /\ call.metas[1].error # Missing
    /\ call.texts = <<EmptyStr, TextLabelled>>

\* the deadlines of StatusDeadlines that are a date and a time of day, and
\* the minute of 2000-01-01 they name, or the side of that day they are on
DeadlineMinute(deadline) ==
    CASE deadline \in {Midnight2000, Short2000} -> 0
      [] deadline = Minute2000 -> 1
      [] deadline = Eve1999 -> -1
      [] deadline = Morning2099 -> 24 * 60
IsDateTime(deadline) ==
    deadline \in {Midnight2000, Short2000, Minute2000, Eve1999, Morning2099}

\* C19: the status _evaluate_status gives a deadline is "aktualna" (active)
\* when the string is not a %d.%m.%Y %H:%M date, "prosrochena" (expired)
\* when the date is at or before the current instant, and "aktualna" when it
\* is after it.
C19_StatusFromDeadline ==
    (fncall.fn = "_evaluate_status" /\ fncall.done) =>
        fncall.result =
            IF ~IsDateTime(fncall.deadline) THEN StatusActive
            ELSE IF DeadlineMinute(fncall.deadline) * TicksPerMinute <= fncall.t
            THEN StatusExpired
            ELSE StatusActive

\* a deadline that is the current instant has been found expired
C19_Witness ==
    /\ fncall.fn = "_evaluate_status" /\ fncall.done
    /\ fncall.deadline = Minute2000 /\ fncall.t = TicksPerMinute
    /\ fncall.result = StatusExpired

\* C20: the upload of one text file with the lines "Srok ispolneniya:
\* 01.01.2099 10:00" and "artikul: AB12 cena 1500" for the organization
\* 1234567890 gives a record with that deadline and the status "aktualna"
\* (active), and exactly one product candidate, AB12 at 1500.
C20_EndToEnd ==
    (IngestEnded /\ outcome.files = <<"lines.txt">> /\ outcome.inn = "1234567890") =>
        /\ outcome.status = "returned"
        /\ outcome.tender.deadline =
              <<"0", "1", ".", "0", "1", ".", "2", "0", "9", "9", " ", "1", "0", ":", "0", "0">>
        /\ outcome.tender.status = StatusActive
        /\ <<outcome.tender.number,
             <<[code |-> <<"A", "B", "1", "2">>, price |-> <<"1", "5", "0", "0">>]>>>>
              \in candFiles[outcome.inn]

\* C21: every record of every registry, written by an ingestion or by a
\* monitoring run, has one of the three statuses "aktualna" (active),
\* "prosrochena" (expired) and "novyj" (new).
C21_StatusValues ==
    \A o \in Orgs : \A i \in 1..Len(registry[o]) :
        registry[o][i].status \in {StatusActive, StatusExpired, StatusNew}

\* the mode the stored alias of a keyword rule stands for
CanonicalModes == {"exact_in_text", "nearby_words", "any_ending"}
CanonicalOf(alias) ==
    IF alias \in CanonicalModes THEN alias
    ELSE IF alias = "nearby" THEN "nearby_words"
    ELSE "exact_in_text"

\* the rules of the last monitoring run that came from the keyword file
KeywordRules ==
    SubSeq(outcome.rules, Len(outcome.loaded.search_modes) + 1, Len(outcome.rules))

\* C22: the rules a monitoring run takes from the keyword file have a
\* canonical mode each: "exact" gives exact_in_text, "nearby" nearby_words,
\* "any_ending" any_ending, and every other or missing alias exact_in_text.
C22_ModeAliases ==
    outcome.op = "monitor" =>
        LET file == keywordsFile[outcome.inn]
        IN /\ \A i \in 1..Len(KeywordRules) : KeywordRules[i].mode \in CanonicalModes
           /\ file.kind = "terms" =>
                 /\ Len(KeywordRules) = Len(file.items)
                 /\ \A i \in 1..Len(file.items) :
                       KeywordRules[i].mode =
                          IF file.items[i].isdict THEN CanonicalOf(file.items[i].mode)
                          ELSE "exact_in_text"

\* a run has read rules stored under each of the three legacy aliases, or
\* under an alias that is not known or not there
C22_Witness ==
    /\ outcome.op = "monitor"
    /\ keywordsFile[outcome.inn].kind = "terms"
    /\ {"exact", "any_ending", "", "EXACT"} \subseteq
          {keywordsFile[outcome.inn].items[i].mode :
              i \in 1..Len(keywordsFile[outcome.inn].items)}
    /\ {KeywordRules[i].mode : i \in 1..Len(KeywordRules)} = CanonicalModes

\* the parameters, the profile and the time of a monitoring run for an
\* organization in the current state
RunContext(inn) ==
    [search_params |-> _merge_keywords(load_search_params(searchParams[inn]).params,
                                       _load_search_keywords(keywordsFile[inn])),
     profile |-> profileFile[inn],
     current_time |-> NowAt(now)]

\* the candidates a run is to append: accepted by the filter, with a number
\* the registry does not hold when the run begins
ToAppend(candidates, c, stored) ==
    SelectSeq(candidates,
              LAMBDA tender : Accepted(tender, c) /\ Get(tender, "number") \notin stored)

\* what a run for inn over the candidates appends to the registry
RunAppends(inn, candidates) ==
    LET new == ToAppend(candidates, RunContext(inn), Numbers(registry[inn]))
    IN /\ registry'[inn] = registry[inn] \o [i \in 1..Len(new) |-> MonitorRecord(new[i])]
       /\ \A o \in Orgs \ {inn} : registry'[o] = registry[o]

\* C23: a run of find_new_tenders appends to the registry of the
\* organization a record for each incoming candidate that filter_tenders
\* accepts and whose number the registry does not hold when the run begins,
\* in the order of the candidates, and nothing else; no record is appended
\* for an expired candidate or for one that fails an allow-list.
C23_MonitorAppends ==
    [][\A inn \in Orgs : \A candidates \in MonitorLists :
          FindNewTenders(inn, candidates) => RunAppends(inn, candidates)]_vars

\* after two runs under a region allow-list the registry holds the one
\* candidate that was offered with an expired one of the same number and
\* with one of another region: the second run found its number stored
C23_Witness ==
    /\ calls = 2 /\ outcome.op = "monitor"
    /\ registry[outcome.inn] = <<MonitorRecord(TenderWide)>>
    /\ \A o \in Orgs \ {outcome.inn} : registry[o] = <<>>
    /\ outcome.loaded.regions = <<Msk>>

\* the file is an archive that unpacks
Unpacks(f) == Ext(f) = <<".", "z", "i", "p">> /\ Disk[f].zip = "ok"

\* the aggregate over the entries of the archive alone: what processing it
\* gives in a workspace that holds nothing else
OwnAggregate(f) == _process_single_file(f, {}, 0).res

\* C24: in an ingestion call the text, the product candidates and the count
\* of nested files of each archive are those of the entries unpacked from
\* that archive: the entries of an archive processed earlier in the call are
\* not processed again.
C24_ArchiveAggregates ==
    pc = "files" =>
        \A k \in 1..Processed :
            Unpacks(call.files[k]) =>
                /\ call.texts[k] = OwnAggregate(call.files[k]).text
                /\ call.metas[k].processed_files =
                      IntToStr(Len(Disk[call.files[k]].members))

\* C25: the text and the product candidates stored for a number are those of
\* the ingestion that created the record with that number: an ingestion
\* that finds the number of its record in the registry leaves the text and
\* the candidates stored for the organization as they are.
C25_ArtifactsOfCreator ==
    [][(SaveStep /\ outcome'.tender.number \in Numbers(registry[call.inn])) =>
          /\ textFiles'[call.inn] = textFiles[call.inn]
          /\ candFiles'[call.inn] = candFiles[call.inn]]_vars

\* the fields extracted from the texts of the running call
CallFields == _extract_fields_from_text(JoinLines(call.texts))

\* C26: an ingestion whose text yields no tax id and no deadline builds a
\* record with the number "manual", the time of the call as DD.MM.YYYY HH:MM
\* for its deadline and the status "prosrochena" (expired); no registry holds
\* two records numbered "manual", and an ingestion without a tax id that
\* finds such a record adds none.
C26_ManualFallback ==
    [][/\ \A o \in Orgs : CountNumber(registry'[o], Manual) <= 1
       /\ (SaveStep /\ ~Truthy(CallFields.customer_inn)) =>
             /\ outcome'.tender.number = Manual
             /\ ~Truthy(CallFields.submission_deadline) =>
                   /\ outcome'.tender.deadline = StrftimeDMYHM(now)
                   /\ outcome'.tender.status = StatusExpired
             /\ Manual \in Numbers(registry[call.inn]) => registry' = registry]_vars

\* a second ingestion without tax id and deadline has returned an expired
\* record "manual" of a later minute than the one the registry keeps
C26_Witness ==
    /\ IngestEnded /\ outcome.status = "returned" /\ calls = 2
    /\ outcome.tender.number = Manual /\ outcome.tender.status = StatusExpired
    /\ outcome.tender.deadline = StrftimeDMYHM(now)
    /\ CountNumber(registry[outcome.inn], Manual) = 1
    /\ outcome.tender \notin Range(registry[outcome.inn])

\* the string a rule looks for is empty: the term is empty, or it is one
\* character of which any_ending drops the last
EmptySearchString(rule) ==
    \/ rule.term = EmptyStr
    \/ rule.mode = "any_ending" /\ Len(rule.term) = 1

\* C27: a rule whose search string is empty (an empty term in any mode, a
\* term of one character in the mode any_ending) does not make TextMatches
\* succeed: with that rule alone no description matches.
C27_EmptySearchString ==
    (fncall.fn = "_matches_terms" /\ fncall.done /\ EmptySearchString(fncall.rule))
        => ~fncall.result

\* a is b with some of its elements left out
RECURSIVE IsSubsequence(_, _)
IsSubsequence(a, b) ==
    IF a = <<>> THEN TRUE
    ELSE IF b = <<>> THEN FALSE
    ELSE IF Head(a) = Head(b) THEN IsSubsequence(Tail(a), Tail(b))
    ELSE IsSubsequence(a, Tail(b))

\* C28: what filter_tenders returns is a subsequence of the list it was
\* given (the accepted candidates as they came, in their order, once for
\* each time they were offered), and filtering the result again under the same
\* parameters, profile and time returns it unchanged.
C28_SubsequenceIdempotent ==
    fcall.done =>
        /\ IsSubsequence(fcall.result, fcall.tenders)
        /\ filter_tenders(fcall.result, fcall.search_params, fcall.current_time,
                          fcall.profile) = fcall.result

\* of a candidate offered twice around a rejected one both offers were
\* returned, with the description None they came with
C28_Witness ==
    /\ fcall.done /\ fcall.tenders = FilterRepeats
    /\ fcall.result = <<FilterRepeats[1], FilterRepeats[3]>>
    /\ fcall.result[1].description = None

\* a free term and rules that no description of the candidates satisfies
FurtherTerm == <<"z", "i", "n", "c">>
FurtherRules ==
    {[term |-> FurtherTerm, mode |-> "exact_in_text", distance |-> 1],
     [term |-> FurtherTerm \o <<" ">> \o FurtherTerm, mode |-> "nearby_words", distance |-> 0]}
WithTerm(search_params, term) ==
    [search_params EXCEPT !.tools_and_terms = Append(@, term)]
WithRule(search_params, rule) ==
    [search_params EXCEPT !.search_modes = Append(@, rule)]

\* what the filter keeps of the result of the call under other parameters
StillAccepted(c, search_params) ==
    filter_tenders(c.result, search_params, c.current_time, c.profile)

\* C29: when the call has a free term, a classifier term or a rule, a
\* further free term or a further rule rejects no candidate that the call
\* accepted.
C29_FurtherCriteria ==
    (fcall.done /\ ~NoTextCriteria(fcall)) =>
        /\ StillAccepted(fcall, WithTerm(fcall.search_params, FurtherTerm)) = fcall.result
        /\ \A rule \in FurtherRules :
              StillAccepted(fcall, WithRule(fcall.search_params, rule)) = fcall.result

\* a call with a classifier term has accepted candidates that the further
\* term on its own rejects
C29_Witness ==
    /\ fcall.done /\ ~NoTextCriteria(fcall) /\ fcall.result # <<>>
    /\ fcall.search_params.tools_and_terms # <<>>
    /\ filter_tenders(fcall.result, WithTerm(_default_search_params, FurtherTerm),
                      fcall.current_time, NoProfile) = <<>>

\* what the organization has stored
Stored(o) ==
    <<registry[o], searchParams[o], keywordsFile[o], profileFile[o],
      textFiles[o], metaFiles[o], candFiles[o]>>

\* the step leaves what every organization but inn has stored as it is
OnlyFor(inn) == \A o \in Orgs \ {inn} : Stored(o)' = Stored(o)

\* C30: an ingestion, a monitoring run, a load and a save of search
\* parameters for one organization leave the registry, the parameters and
\* the artifacts of every other organization as they are; no other step
\* changes what an organization has stored.
C30_Isolation ==
    [][IF SaveStep THEN OnlyFor(call.inn)
       ELSE IF calls' = calls + 1 /\ pc' = "idle" /\ outcome'.op = "monitor"
       THEN OnlyFor(outcome'.inn)
       ELSE IF fncall' # fncall THEN OnlyFor(fncall'.inn)
       ELSE \A o \in Orgs : Stored(o)' = Stored(o)]_vars

\* after an ingestion for one organization and a monitoring run for another
\* the first has a record and artifacts and no parameter file, the second
\* has records of other numbers, a parameter file and no artifact
C30_Witness ==
    \E a \in Orgs : \E b \in Orgs \ {a} :
        /\ outcome.op = "monitor" /\ outcome.inn = b
        /\ registry[a] # <<>> /\ textFiles[a] # {} /\ candFiles[a] # {}
        /\ ~searchParams[a].exists
        /\ registry[b] # <<>> /\ textFiles[b] = {} /\ candFiles[b] = {}
        /\ searchParams[b].exists
        /\ Numbers(registry[a]) \cap Numbers(registry[b]) = {}

TypeOK ==
    /\ pc \in {"idle", "files"}
    /\ now \in 0..MaxTime
    /\ tempDir.exists \in BOOLEAN

====
